---- MODULE Spec2Model ----
(***************************************************************************)
(* Model of the image preview pipeline of r2s3-cli: the disk cache         *)
(* (internal/tui/image/cache.go), the object downloader, and the preview   *)
(* orchestrator (ImageManager).                                            *)
(*                                                                         *)
(* Files are byte sequences held in `files`, a map from path to content.   *)
(* A path is a triple <<directory, stem, extension>>.  Time is in hours;   *)
(* every operation that reads the clock sees a strictly later time than    *)
(* the operations before it.                                               *)
(***************************************************************************)
EXTENDS Integers, Sequences, FiniteSets, TLC

\* ------------------------------------------------------------------ bounds

\* Hours that pass between two operations that read the clock.
ClockStep == 12
\* The clock stops here: at most MaxTime \div ClockStep clock-reading calls.
MaxTime == 36
\* Calls of DownloadWithProgress or DownloadWithRetry a goroutine makes.
MaxCalls == 1
\* Calls of Preview and PreviewForce made in all.
MaxPreviews == 2
\* The largest maxRetries handed to DownloadWithRetry.
MaxRetries == 2
\* Largest maxRetries of a DownloadWithRetry whose attempts all fail
MaxBackoffRetries == 36

\* ------------------------------------------------------------------ universe

\* Cache keys of the cache-only specifications.
Keys == {"a", "b", "c"}

CleanupPolicyLRU == "LRU"
CleanupPolicySize == "Size"
CleanupPolicyAge == "Age"
CleanupPolicies == {CleanupPolicyLRU, CleanupPolicySize, CleanupPolicyAge}

\* Configured maximum cache sizes tried.
MaxSizes == {50, 30}

\* cleanupByAge removes entries created more than this many hours ago.
AgeThresholdHours == 24

CacheDir == "cache"
SrcDir == "src"

\* n bytes of value b.
Rep(n, b) == [i \in 1..n |-> b]

\* Source files handed to Put in the cache-only specifications.
Src19 == <<SrcDir, "s19", ".jpg">>
Src20 == <<SrcDir, "s20", ".jpg">>
Src20png == <<SrcDir, "t20", ".png">>
SrcPaths == {Src19, Src20, Src20png}
SrcContent(p) ==
  CASE p = Src19 -> Rep(19, 1)
    [] p = Src20 -> Rep(20, 2)
    [] p = Src20png -> Rep(20, 3)

\* The file each key is Put from: a from 19 bytes, b and c from 20 bytes.
SourceOf(key) == IF key = "a" THEN Src19 ELSE Src20

\* The file system at start: the source files, an empty cache directory.
InitFiles == [p \in SrcPaths |-> SrcContent(p)]

\* filepath.Ext
Ext(path) == path[3]

\* ------------------------------------------------------------------ previews

\* The goroutines that call into the orchestrator and the downloader.
Procs == {"p1", "p2"}

\* Remote keys previewed and fetched: two keys with the same base name.
PreviewKeys == {"p/x.png", "q/x.png"}

TmpDir == "tmp"
NoPath == <<"", "", "">>
NoErr == <<>>

\* filepath.Base of a key, as <<stem, extension>>.
Base(fileKey) ==
  CASE fileKey = "p/x.png" -> <<"x", ".png">>
    [] fileKey = "q/x.png" -> <<"x", ".png">>
    [] OTHER -> <<fileKey, "">>

\* A key whose name has no extension.
BareKey == "photo"

\* DownloadWithProgress's tempPath: os.TempDir()/"r2s3-cli-"+Base(fileKey).
TempPathOf(fileKey) ==
  <<TmpDir, "r2s3-cli-" \o Base(fileKey)[1], Base(fileKey)[2]>>

\* The remote object, as the chunks that successive Reads of the body return.
Blob(fileKey) ==
  CASE fileKey = "p/x.png" -> <<11, 12>>
    [] fileKey = "q/x.png" -> <<21, 22>>
    [] fileKey = BareKey -> <<31, 32>>
    [] OTHER -> <<>>

DownloadStatusPending == "pending"
DownloadStatusStarted == "started"
DownloadStatusDownloading == "downloading"
DownloadStatusCompleted == "completed"
DownloadStatusFailed == "failed"
DownloadStatusCancelled == "cancelled"
\* The Status of a DownloadState that has not been created.
NoStatus == "none"

\* Error messages are sequences of phrases.
ErrNoClient == <<"S3 client not configured">>
ErrNotFound == <<"NoSuchKey">>
ErrUnavailable == <<"operation error S3: GetObject", "Service Unavailable">>
ErrReset == <<"read tcp", "connection reset", "by peer">>
ErrCreate == <<"open", "permission denied">>
ErrCanceled == <<"context canceled">>

\* strings.ToLower, phrase by phrase.
ToLower(phrase) ==
  CASE phrase = "Service Unavailable" -> "service unavailable"
    [] phrase = "NoSuchKey" -> "nosuchkey"
    [] phrase = "S3 client not configured" -> "s3 client not configured"
    [] phrase = "operation error S3: GetObject" -> "operation error s3: getobject"
    [] OTHER -> phrase

retryableErrors ==
  {"timeout", "connection reset", "connection refused", "temporary failure",
   "service unavailable", "internal server error", "bad gateway",
   "gateway timeout"}

\* A classifier that takes every error for a retryable one.
isRetryableErrorAlways(err) == err # NoErr

\* isRetryableError: the lower-cased message contains a retryable phrase.
isRetryableError(err) ==
  /\ err # NoErr
  /\ \E i \in 1..Len(err) : ToLower(err[i]) \in retryableErrors

\* int64 values are eight bytes, least significant first, in two's complement.
RECURSIVE Bytes(_, _)
Bytes(n, count) ==
  IF count = 0 THEN <<>> ELSE <<n % 256>> \o Bytes(n \div 256, count - 1)

\* The int64 of a small natural number.
Int64(n) == Bytes(n, 8)

\* time.Duration(1 << uint(n)): the constant 1 takes the type int64, and a
\* shift by 64 or more gives 0.
Shl1(n) == [i \in 1..8 |-> IF n \div 8 = i - 1 THEN 2 ^ (n % 8) ELSE 0]

RECURSIVE SumProducts(_, _, _, _)
SumProducts(a, b, k, i) ==
  IF i > k THEN 0 ELSE a[i] * b[k + 1 - i] + SumProducts(a, b, k, i + 1)

RECURSIVE MulFrom(_, _, _, _)
MulFrom(a, b, k, carry) ==
  IF k > 8 THEN <<>>
  ELSE LET sum == carry + SumProducts(a, b, k, 1)
       IN <<sum % 256>> \o MulFrom(a, b, k + 1, sum \div 256)

\* a * b on int64: the low 64 bits of the product.
Mul64(a, b) == MulFrom(a, b, 1, 0)

Negative64(a) == a[8] >= 128

RECURSIVE GreaterFrom(_, _, _)
GreaterFrom(a, b, i) ==
  IF i = 0 THEN FALSE
  ELSE IF a[i] # b[i] THEN a[i] > b[i]
  ELSE GreaterFrom(a, b, i - 1)

\* a > b on int64.
Greater64(a, b) ==
  IF Negative64(a) # Negative64(b) THEN Negative64(b)
  ELSE GreaterFrom(a, b, 8)

\* time.Second, in nanoseconds.
Second == Int64(1000000000)

\* n * time.Second
Seconds(n) == Mul64(Int64(n), Second)

\* The wait before attempt number `attempt` (0-based, attempt > 0) of
\* DownloadWithRetry.
backoffDuration(attempt) ==
  LET d == Mul64(Shl1(attempt - 1), Second)
  IN IF Greater64(d, Seconds(30)) THEN Seconds(30) ELSE d

\* Content types handed to Preview.
ContentTypes ==
  {"", "text/plain", "image/unknown", "image/png", "IMAGE/PNG; q=1"}

\* mime.ParseMediaType: the lower-cased media type without its parameters.
ParseMediaType(contentType) ==
  CASE contentType = "image/png" -> [mainType |-> "image/png", err |-> FALSE]
    [] contentType = "IMAGE/PNG; q=1" ->
         [mainType |-> "image/png", err |-> FALSE]
    [] contentType = "image/unknown" ->
         [mainType |-> "image/unknown", err |-> FALSE]
    [] contentType = "text/plain" -> [mainType |-> "text/plain", err |-> FALSE]
    [] OTHER -> [mainType |-> "", err |-> TRUE]

\* strings.HasPrefix(mainType, "image/")
HasImagePrefix(mainType) == mainType \in {"image/png", "image/unknown"}

supportedTypes ==
  {"image/jpeg", "image/jpg", "image/png", "image/gif", "image/webp",
   "image/bmp", "image/svg+xml"}

\* A gate that lets every image/ media type through.
IsImageFileByPrefix(contentType) ==
  /\ contentType # ""
  /\ ~ParseMediaType(contentType).err
  /\ HasImagePrefix(ParseMediaType(contentType).mainType)

IsImageFile(contentType) ==
  /\ contentType # ""
  /\ ~ParseMediaType(contentType).err
  /\ HasImagePrefix(ParseMediaType(contentType).mainType)
  /\ ParseMediaType(contentType).mainType \in supportedTypes

\* Extensions getImageInfo knows.
KnownExtensions ==
  {".jpg", ".jpeg", ".png", ".gif", ".webp", ".bmp", ".svg"}

\* Renderer configuration.
DefaultMaxWidth == 120
DefaultMaxHeight == 48
MaxImageWidth == 8192
MaxImageHeight == 4320

\* ------------------------------------------------------------------ hashing

HexDigit(d) ==
  CASE d = 0 -> "0" [] d = 1 -> "1" [] d = 2 -> "2" [] d = 3 -> "3"
    [] d = 4 -> "4" [] d = 5 -> "5" [] d = 6 -> "6" [] d = 7 -> "7"
    [] d = 8 -> "8" [] d = 9 -> "9" [] d = 10 -> "a" [] d = 11 -> "b"
    [] d = 12 -> "c" [] d = 13 -> "d" [] d = 14 -> "e" [] d = 15 -> "f"

\* fmt.Sprintf("%x", sum) of a two-byte sum: four lower-case hex digits.
HexOf(h) ==
  HexDigit((h \div 4096) % 16) \o HexDigit((h \div 256) % 16)
    \o HexDigit((h \div 16) % 16) \o HexDigit(h % 16)

\* The streaming hasher: a 16-bit running digest stands for SHA-256.  It is
\* fed byte by byte, as io.Copy feeds the hasher, and is free of collisions
\* on the contents this model writes (DigestCollisionFree below).
RECURSIVE HashBytes(_, _)
HashBytes(h, bytes) ==
  IF bytes = <<>> THEN h
  ELSE HashBytes((h * 33 + Head(bytes) + 1) % 65536, Tail(bytes))

\* A degenerate digest that sees only the length of the content.
ChecksumOfLengthOnly(content) == HexOf(Len(content))

\* hex digest of a file's content, as copyWithChecksum / VerifyChecksum compute it
ChecksumOf(content) == HexOf(HashBytes(5381, content))

\* md5 of the key, in hex: the real digests of the model's keys.
Md5Hex(key) ==
  CASE key = "a" -> "0cc175b9c0f1b6a831c399e269772661"
    [] key = "b" -> "92eb5ffee6ae2fec3ad71c777531578f"
    [] key = "c" -> "4a8a08f09d37b73795649038408b5f33"
    [] key = "p/x.png" -> "245908ea6635c4e7dccaad3563760456"
    [] key = "q/x.png" -> "f512cb4845f682d7d61795bd08a235b4"
    [] key = BareKey -> "5ae0c1c8a5260bc7b6648f6fbd115c35"

\* Put's cache file name: hex md5 of the key plus the source's extension.
CachePath(key, sourcePath) == <<CacheDir, Md5Hex(key), Ext(sourcePath)>>

\* ------------------------------------------------------------------ state

VARIABLES
  lk,           \* CacheManager.mutex and where each caller of the cache is
                \* between taking it and releasing it
  cells,        \* history: the last cell computation and its result
  fb,           \* FileBrowserModel, the command its last Update returned,
                \* and the messages its commands have in flight
  index,        \* CacheManager.index: key -> CacheEntry
  files,        \* the file system: path -> content
  persisted,    \* entries in .cache_index.json, or NoIndexFile
  now,          \* the clock, in hours
  maxSize,      \* CacheManager.maxSize
  cleanupPolicy,\* CacheManager.cleanupPolicy
  stored,       \* history: key -> the content its last successful Put copied
  last,         \* history: the last API call and what it returned
  stopCleanup,  \* CacheManager.stopCleanup, the channel: "open" or "closed"
  cleanupCtx,   \* CacheManager.cleanupCtx: "live" or "cancelled"
  ticker,       \* CacheManager.cleanupTicker: [pending, stopped]
  bg,           \* where the goroutine of startAutoCleanup is
  panicked,     \* the process has panicked
  stopReturns,  \* history: calls of StopAutoCleanup that returned
  s3Client,     \* ImageDownloader.s3Client is set
  activeDownloads, \* ImageDownloader.activeDownloads: key -> the goroutine
                \* whose DownloadState is registered
  dstate,       \* goroutine -> the DownloadState its fetch created
  proc,         \* goroutine -> its call, its position in it and its locals
  ctxDone,      \* goroutine -> the context of its call is cancelled
  previewCount, \* ImageManager.previewCount
  cacheHitCount,  \* ImageManager.cacheHitCount
  cacheMissCount, \* ImageManager.cacheMissCount
  currentPreview, \* ImageManager.currentPreview
  maxDisplay,   \* ImageManager.maxDisplayWidth, maxDisplayHeight
  rendererMax,  \* ImageRenderer.MaxWidth, MaxHeight
  disp          \* the last call of calculateDisplaySize and its result

cacheVars == <<index, files, persisted, now, maxSize, cleanupPolicy, stored>>
maintVars == <<stopCleanup, cleanupCtx, ticker, bg, panicked, stopReturns>>
dlState == <<s3Client, activeDownloads, dstate, ctxDone>>
dlVars == <<dlState, proc>>
mgrVars == <<previewCount, cacheHitCount, cacheMissCount, currentPreview>>
dispVars == <<maxDisplay, rendererMax, disp, cells, fb, lk>>
otherVars == <<dlVars, mgrVars, dispVars>>
nonCacheVars == <<maintVars, otherVars>>
vars == <<cacheVars, last, nonCacheVars>>

NoIndexFile == [x \in {"no index file"} |-> TRUE]
NoCall == [op |-> "none"]

\* Function f without the argument k.
Without(f, k) == [x \in DOMAIN f \ {k} |-> f[x]]
\* Function f with k mapped to v (k added if new).
With(f, k, v) == [x \in DOMAIN f \cup {k} |-> IF x = k THEN v ELSE f[x]]

\* ------------------------------------------------------------------ cache

CacheEntry(key, path, size, t, checksum) ==
  [Key |-> key, FilePath |-> path, Size |-> size, AccessTime |-> t,
   CreateTime |-> t, Checksum |-> checksum]

\* calculateTotalSize / GetSize: the sum of the entries' sizes.
RECURSIVE SumSizes(_, _)
SumSizes(idx, ks) ==
  IF ks = {} THEN 0
  ELSE LET k == CHOOSE x \in ks : TRUE
       IN idx[k].Size + SumSizes(idx, ks \ {k})

calculateTotalSize(idx) == SumSizes(idx, DOMAIN idx)

GetSize(idx) == calculateTotalSize(idx)

\* copyWithChecksum: what reaches the destination, and its digest.  The source
\* is read after os.Create has truncated the destination, so a source that is
\* the destination itself reads as empty.
copyWithChecksum(fs, sourcePath, cachePath) ==
  LET content == IF sourcePath = cachePath THEN <<>> ELSE fs[sourcePath]
  IN [content |-> content, checksum |-> ChecksumOf(content)]

\* saveIndex: writes the entries to .cache_index.json; saveOk = FALSE is an
\* I/O failure, which leaves the file as it was.
saveIndex(idx, pers, saveOk) == IF saveOk THEN idx ELSE pers

\* validateCache: the entries whose file os.Stat finds.
validateCache(idx, fs) ==
  [k \in {j \in DOMAIN idx : idx[j].FilePath \in DOMAIN fs} |-> idx[k]]

\* A loadIndex that takes the index file as it is.
loadIndexWithoutValidating(pers, fs) ==
  IF pers = NoIndexFile THEN <<>> ELSE pers

\* loadIndex in NewCacheManager: no index file gives an empty index, otherwise
\* the entries of the file, validated.
loadIndex(pers, fs) ==
  IF pers = NoIndexFile THEN <<>> ELSE validateCache(pers, fs)

\* Get that reports the miss but keeps the entry whose file is gone.
GetKeepingStaleEntry(idx, fs, t, key) ==
  IF key \in DOMAIN idx /\ idx[key].FilePath \in DOMAIN fs
  THEN [index |-> [idx EXCEPT ![key].AccessTime = t], hit |-> TRUE,
        touched |-> TRUE]
  ELSE [index |-> idx, hit |-> FALSE, touched |-> FALSE]

\* Get: [index, hit, touched].  No error is ever returned.
Get(idx, fs, t, key) ==
  IF key \notin DOMAIN idx
  THEN [index |-> idx, hit |-> FALSE, touched |-> FALSE]
  ELSE IF idx[key].FilePath \notin DOMAIN fs
  THEN [index |-> Without(idx, key), hit |-> FALSE, touched |-> FALSE]
  ELSE [index |-> [idx EXCEPT ![key].AccessTime = t], hit |-> TRUE,
        touched |-> TRUE]

PutFaults == {"none", "create", "copy"}

\* A Put that returns the copy's error without removing what the copy wrote.
PutKeepingPartialFile(idx, fs, t, key, sourcePath, fault) ==
  LET cachePath == CachePath(key, sourcePath)
      copied == copyWithChecksum(fs, sourcePath, cachePath)
      entry == CacheEntry(key, cachePath, Len(copied.content), t,
                          copied.checksum)
  IN IF sourcePath \notin DOMAIN fs \/ fault = "create"
     THEN [index |-> idx, files |-> fs, err |-> TRUE, path |-> <<>>]
     ELSE IF fault = "copy"
     THEN [index |-> idx, files |-> With(fs, cachePath, <<>>), err |-> TRUE,
           path |-> <<>>]
     ELSE [index |-> With(idx, key, entry),
           files |-> With(fs, cachePath, copied.content), err |-> FALSE,
           path |-> cachePath]

\* Put: [index, files, err, path].  fault is the I/O failure met, if any.
Put(idx, fs, t, key, sourcePath, fault) ==
  LET cachePath == CachePath(key, sourcePath)
      copied == copyWithChecksum(fs, sourcePath, cachePath)
      entry == CacheEntry(key, cachePath, Len(copied.content), t,
                          copied.checksum)
  IN IF sourcePath \notin DOMAIN fs \/ fault = "create"
     THEN [index |-> idx, files |-> fs, err |-> TRUE, path |-> <<>>]
     ELSE IF fault = "copy"
     THEN [index |-> idx, files |-> Without(fs, cachePath), err |-> TRUE,
           path |-> <<>>]
     ELSE [index |-> With(idx, key, entry),
           files |-> With(fs, cachePath, copied.content), err |-> FALSE,
           path |-> cachePath]

\* A Delete that removes the file and leaves the entry in the index.
DeleteKeepingEntry(idx, fs, key) ==
  IF key \notin DOMAIN idx
  THEN [index |-> idx, files |-> fs]
  ELSE [index |-> idx, files |-> Without(fs, idx[key].FilePath)]

\* A Delete that removes the key's file and drops every entry of the index.
DeleteDroppingAll(idx, fs, key) ==
  IF key \notin DOMAIN idx
  THEN [index |-> idx, files |-> fs]
  ELSE [index |-> <<>>, files |-> Without(fs, idx[key].FilePath)]

\* Delete: [index, files].  os.Remove's error is ignored.
Delete(idx, fs, key) ==
  IF key \notin DOMAIN idx
  THEN [index |-> idx, files |-> fs]
  ELSE [index |-> Without(idx, key),
        files |-> Without(fs, idx[key].FilePath)]

\* GetCacheStats: the two fields that count the cache.
GetCacheStats(idx) ==
  [TotalFiles |-> Cardinality(DOMAIN idx),
   TotalSize |-> calculateTotalSize(idx)]

\* UpdateAccessTime
UpdateAccessTime(idx, t, key) ==
  IF key \in DOMAIN idx THEN [idx EXCEPT ![key].AccessTime = t] ELSE idx

\* All orders of the keys ks.
RECURSIVE Perms(_)
Perms(ks) ==
  IF ks = {} THEN {<<>>}
  ELSE UNION {{<<k>> \o p : p \in Perms(ks \ {k})} : k \in ks}

\* The comparison cleanupByLRU, GetLRUEntries and freeSpace sort by.
LRULessNewestFirst(e1, e2) == e1.AccessTime > e2.AccessTime

LRULess(e1, e2) == e1.AccessTime < e2.AccessTime

\* A comparison that puts smaller files first.
SizeLessSmallestFirst(e1, e2) == e1.Size < e2.Size

\* The comparison cleanupBySize sorts by: larger files first.
SizeLess(e1, e2) == e1.Size > e2.Size

\* sort.Slice over the entries of the map: every order of the keys with no
\* pair out of order (the sort is not stable and the map has no order, so
\* entries that compare equal may come out either way).
SortedOrders(idx, Less(_, _)) ==
  {p \in Perms(DOMAIN idx) :
     \A i \in 1..Len(p) : \A j \in 1..Len(p) :
        i < j => ~Less(idx[p[j]], idx[p[i]])}

\* The eviction loop, stopping one entry early.
RECURSIVE EvictStoppingEarly(_, _, _, _, _)
EvictStoppingEarly(order, idx, fs, removedSize, sizeToRemove) ==
  IF order = <<>> \/ removedSize + idx[Head(order)].Size >= sizeToRemove
  THEN [index |-> idx, files |-> fs]
  ELSE LET e == idx[Head(order)]
       IN IF e.FilePath \in DOMAIN fs
          THEN EvictStoppingEarly(Tail(order), Without(idx, e.Key),
                                  Without(fs, e.FilePath),
                                  removedSize + e.Size, sizeToRemove)
          ELSE EvictStoppingEarly(Tail(order), idx, fs, removedSize,
                                  sizeToRemove)

\* The loop of cleanupByLRU, cleanupBySize and freeSpace: walk the sorted
\* entries until enough bytes are freed; an entry is dropped only if its file
\* could be removed.
RECURSIVE EvictInOrder(_, _, _, _, _)
EvictInOrder(order, idx, fs, removedSize, sizeToRemove) ==
  IF order = <<>> \/ removedSize >= sizeToRemove
  THEN [index |-> idx, files |-> fs]
  ELSE LET e == idx[Head(order)]
       IN IF e.FilePath \in DOMAIN fs
          THEN EvictInOrder(Tail(order), Without(idx, e.Key),
                            Without(fs, e.FilePath),
                            removedSize + e.Size, sizeToRemove)
          ELSE EvictInOrder(Tail(order), idx, fs, removedSize, sizeToRemove)

\* cleanupByLRU, for one outcome `order` of the sort
cleanupByLRU(idx, fs, currentSize, max, order) ==
  EvictInOrder(order, idx, fs, 0, currentSize - max)

\* cleanupBySize, for one outcome `order` of the sort
cleanupBySize(idx, fs, currentSize, max, order) ==
  EvictInOrder(order, idx, fs, 0, currentSize - max)

\* cleanupByAge: every entry created before now - 24h whose file can be removed
cleanupByAge(idx, fs, t) ==
  LET cutoffTime == t - AgeThresholdHours
      gone == {k \in DOMAIN idx :
                 idx[k].CreateTime < cutoffTime /\ idx[k].FilePath \in DOMAIN fs}
  IN [index |-> [k \in DOMAIN idx \ gone |-> idx[k]],
      files |-> [p \in DOMAIN fs \ {idx[k].FilePath : k \in gone} |-> fs[p]]]

\* The orders the active policy's sort may produce.
CleanupOrders(idx, policy) ==
  CASE policy = CleanupPolicySize -> SortedOrders(idx, SizeLess)
    [] policy = CleanupPolicyAge -> {<<>>}
    [] OTHER -> SortedOrders(idx, LRULess)

\* Cleanup: [index, files, saved]; saved tells whether saveIndex was called.
Cleanup(idx, fs, max, policy, t, order) ==
  LET currentSize == calculateTotalSize(idx)
      r == CASE policy = CleanupPolicySize ->
                  cleanupBySize(idx, fs, currentSize, max, order)
             [] policy = CleanupPolicyAge -> cleanupByAge(idx, fs, t)
             [] OTHER -> cleanupByLRU(idx, fs, currentSize, max, order)
  IN IF currentSize <= max
     THEN [index |-> idx, files |-> fs, saved |-> FALSE]
     ELSE [index |-> r.index, files |-> r.files, saved |-> TRUE]

\* freeSpace, for one outcome `order` of its sort by access time.
freeSpace(idx, fs, sizeToFree, order) ==
  EvictInOrder(order, idx, fs, 0, sizeToFree)

\* PreallocateSpace: [index, files, saved]; saved tells whether saveIndex was
\* called, whose error is the only one PreallocateSpace returns.
PreallocateSpace(idx, fs, max, requiredSize, order) ==
  LET currentSize == calculateTotalSize(idx)
      sizeToFree == (currentSize + requiredSize) - max
      r == freeSpace(idx, fs, sizeToFree, order)
  IN IF currentSize + requiredSize <= max
     THEN [index |-> idx, files |-> fs, saved |-> FALSE]
     ELSE [index |-> r.index, files |-> r.files, saved |-> TRUE]

\* VerifyChecksum: [ok, err]
VerifyChecksum(idx, fs, key) ==
  IF key \notin DOMAIN idx THEN [ok |-> FALSE, err |-> TRUE]
  ELSE IF idx[key].FilePath \notin DOMAIN fs THEN [ok |-> FALSE, err |-> TRUE]
  ELSE [ok |-> ChecksumOf(fs[idx[key].FilePath]) = idx[key].Checksum,
        err |-> FALSE]

\* CompactCache that keeps every entry whose file exists, verified or not.
CompactCacheWithoutVerifying(idx, fs) ==
  LET present == {k \in DOMAIN idx : idx[k].FilePath \in DOMAIN fs}
  IN [index |-> [k \in present |-> idx[k]], files |-> fs]

\* CompactCache: [index, files].  An entry is kept when os.Stat finds its file
\* and verifyChecksum accepts it; the file of an entry that fails
\* verification is removed.  No two entries share a file (CachePath), so the
\* order of the map iteration does not matter.
CompactCache(idx, fs) ==
  LET present == {k \in DOMAIN idx : idx[k].FilePath \in DOMAIN fs}
      valid == {k \in present :
                  ChecksumOf(fs[idx[k].FilePath]) = idx[k].Checksum}
      removed == {idx[k].FilePath : k \in present \ valid}
  IN [index |-> [k \in valid |-> idx[k]],
      files |-> [f \in DOMAIN fs \ removed |-> fs[f]]]

\* ------------------------------------------------------------------ cache calls

\* A call that stamps an entry with time.Now() moves the clock on.
ClockOpen == now <= MaxTime

DoGet(key) ==
  LET r == Get(index, files, now, key)
  IN /\ r.touched => ClockOpen
     /\ index' = r.index
     /\ now' = IF r.touched THEN now + ClockStep ELSE now
     /\ last' = [op |-> "Get", key |-> key, hit |-> r.hit, err |-> FALSE,
                 indexed |-> key \in DOMAIN index,
                 fileGone |-> key \in DOMAIN index
                                /\ index[key].FilePath \notin DOMAIN files]
     /\ UNCHANGED <<files, persisted, maxSize, cleanupPolicy, stored, nonCacheVars>>

DoPut(key, sourcePath, fault, saveOk) ==
  LET r == Put(index, files, now, key, sourcePath, fault)
  IN /\ ~r.err => ClockOpen
     /\ index' = r.index
     /\ files' = r.files
     /\ persisted' = IF r.err THEN persisted
                     ELSE saveIndex(r.index, persisted, saveOk)
     /\ now' = IF r.err THEN now ELSE now + ClockStep
     /\ stored' = IF r.err THEN stored
                  ELSE With(stored, key, r.files[r.path])
     /\ last' = [op |-> "Put", key |-> key, err |-> r.err, path |-> r.path,
                 fault |-> fault]
     /\ UNCHANGED <<maxSize, cleanupPolicy, nonCacheVars>>

DoDelete(key) ==
  LET r == Delete(index, files, key)
  IN /\ index' = r.index
     /\ files' = r.files
     /\ stored' = Without(stored, key)
     /\ last' = [op |-> "Delete", key |-> key, err |-> FALSE,
                 indexed |-> key \in DOMAIN index,
                 fileGone |-> key \in DOMAIN index
                                /\ index[key].FilePath \notin DOMAIN files]
     /\ UNCHANGED <<persisted, now, maxSize, cleanupPolicy, nonCacheVars>>

DoUpdateAccessTime(key) ==
  /\ key \in DOMAIN index => ClockOpen
  /\ index' = UpdateAccessTime(index, now, key)
  /\ now' = IF key \in DOMAIN index THEN now + ClockStep ELSE now
  /\ last' = [op |-> "UpdateAccessTime", key |-> key]
  /\ UNCHANGED <<files, persisted, maxSize, cleanupPolicy, stored, nonCacheVars>>

DoCleanup(order, saveOk) ==
  LET r == Cleanup(index, files, maxSize, cleanupPolicy, now, order)
  IN /\ index' = r.index
     /\ files' = r.files
     /\ persisted' = IF r.saved THEN saveIndex(r.index, persisted, saveOk)
                     ELSE persisted
     /\ last' = [op |-> "Cleanup", err |-> r.saved /\ ~saveOk,
                 before |-> index]
     /\ UNCHANGED <<now, maxSize, cleanupPolicy, stored, nonCacheVars>>

\* The sizes PreallocateSpace is asked for.
RequiredSizes == {0, 15, 30, 60}

DoPreallocateSpace(requiredSize, order, saveOk) ==
  LET r == PreallocateSpace(index, files, maxSize, requiredSize, order)
  IN /\ index' = r.index
     /\ files' = r.files
     /\ persisted' = IF r.saved THEN saveIndex(r.index, persisted, saveOk)
                     ELSE persisted
     /\ last' = [op |-> "PreallocateSpace", requiredSize |-> requiredSize,
                 err |-> r.saved /\ ~saveOk, before |-> index]
     /\ UNCHANGED <<now, maxSize, cleanupPolicy, stored, nonCacheVars>>

\* The content of the file a key's entry points to differs from what Put
\* stored.
Altered(key) ==
  /\ key \in DOMAIN index
  /\ index[key].FilePath \in DOMAIN files
  /\ files[index[key].FilePath] # stored[key]

DoVerifyChecksum(key) ==
  LET r == VerifyChecksum(index, files, key)
  IN /\ last' = [op |-> "VerifyChecksum", key |-> key, ok |-> r.ok,
                 err |-> r.err,
                 afterPut |-> last.op = "Put" /\ last.key = key /\ ~last.err,
                 altered |-> Altered(key)]
     /\ UNCHANGED <<cacheVars, nonCacheVars>>

DoCompactCache(saveOk) ==
  LET r == CompactCache(index, files)
  IN /\ index' = r.index
     /\ files' = r.files
     /\ persisted' = saveIndex(r.index, persisted, saveOk)
     /\ last' = [op |-> "CompactCache", err |-> ~saveOk, before |-> index,
                 filesBefore |-> files]
     /\ UNCHANGED <<now, maxSize, cleanupPolicy, stored, nonCacheVars>>

\* Contents another program may leave in a cache file.
AlteredContents == {<<>>, Rep(19, 7), Rep(20, 3), Rep(20, 2)}

\* Another program removes a cache file.
OutOfBandRemove(path) ==
  /\ path \in DOMAIN files
  /\ path[1] = CacheDir
  /\ files' = Without(files, path)
  /\ last' = [op |-> "OutOfBandRemove", path |-> path]
  /\ UNCHANGED <<index, persisted, now, maxSize, cleanupPolicy, stored, nonCacheVars>>

\* Another program overwrites a cache file.
OutOfBandAlter(path, content) ==
  /\ path \in DOMAIN files
  /\ path[1] = CacheDir
  /\ files[path] # content
  /\ files' = [files EXCEPT ![path] = content]
  /\ last' = [op |-> "OutOfBandAlter", path |-> path]
  /\ UNCHANGED <<index, persisted, now, maxSize, cleanupPolicy, stored, nonCacheVars>>

\* ------------------------------------------------------------------ maintenance

\* cleanupTempFiles: removes every file of the cache directory that no index
\* entry points to (the index file is not among `files`).
cleanupTempFiles(idx, fs) ==
  LET referenced == {idx[k].FilePath : k \in DOMAIN idx}
      orphans == {p \in DOMAIN fs : p[1] = CacheDir /\ p \notin referenced}
  IN [p \in DOMAIN fs \ orphans |-> fs[p]]

\* The hourly ticker puts a tick in its channel (of capacity one).
TickerFires ==
  /\ ~ticker.stopped
  /\ ~ticker.pending
  /\ ticker' = [ticker EXCEPT !.pending = TRUE]
  /\ UNCHANGED <<cacheVars, last, stopCleanup, cleanupCtx, bg, panicked,
                 stopReturns, otherVars>>

\* The goroutine takes the tick and runs Cleanup; on an error it goes back to
\* the select, otherwise on to cleanupTempFiles.
BgCleanup(order, saveOk) ==
  LET r == Cleanup(index, files, maxSize, cleanupPolicy, now, order)
      err == r.saved /\ ~saveOk
  IN /\ bg = "select"
     /\ ticker.pending
     /\ ticker' = [ticker EXCEPT !.pending = FALSE]
     /\ index' = r.index
     /\ files' = r.files
     /\ persisted' = IF r.saved THEN saveIndex(r.index, persisted, saveOk)
                     ELSE persisted
     /\ bg' = IF err THEN "select" ELSE "cleanupTempFiles"
     /\ last' = [op |-> "BgCleanup", err |-> err, before |-> index]
     /\ UNCHANGED <<now, maxSize, cleanupPolicy, stored, stopCleanup,
                    cleanupCtx, panicked, stopReturns, otherVars>>

BgCleanupTempFiles ==
  /\ bg = "cleanupTempFiles"
  /\ files' = cleanupTempFiles(index, files)
  /\ bg' = "select"
  /\ last' = [op |-> "BgCleanupTempFiles"]
  /\ UNCHANGED <<index, persisted, now, maxSize, cleanupPolicy, stored,
                 stopCleanup, cleanupCtx, ticker, panicked, stopReturns, otherVars>>

\* A goroutine that returns without stopping its ticker.
BgExitLeavingTicker ==
  /\ bg = "select"
  /\ stopCleanup = "closed" \/ cleanupCtx = "cancelled"
  /\ bg' = "exited"
  /\ UNCHANGED <<cacheVars, last, stopCleanup, cleanupCtx, ticker, panicked,
                 stopReturns, otherVars>>

\* The select sees the closed channel or the cancelled context: the goroutine
\* returns and its deferred cleanupTicker.Stop() runs.
BgExit ==
  /\ bg = "select"
  /\ stopCleanup = "closed" \/ cleanupCtx = "cancelled"
  /\ bg' = "exited"
  /\ ticker' = [ticker EXCEPT !.stopped = TRUE]
  /\ UNCHANGED <<cacheVars, last, stopCleanup, cleanupCtx, panicked,
                 stopReturns, otherVars>>

\* StopAutoCleanup: cancels the context, then closes the channel.  Closing a
\* closed channel panics.
StopAutoCleanup ==
  /\ cleanupCtx' = "cancelled"
  /\ IF stopCleanup = "closed"
     THEN /\ panicked' = TRUE
          /\ UNCHANGED <<stopCleanup, stopReturns>>
     ELSE /\ stopCleanup' = "closed"
          /\ stopReturns' = stopReturns + 1
          /\ UNCHANGED panicked
  /\ last' = [op |-> "StopAutoCleanup"]
  /\ UNCHANGED <<cacheVars, ticker, bg, otherVars>>

\* ------------------------------------------------------------------ downloader

\* What a fetch that has not finished is about to return.
NoFret == [ok |-> FALSE, path |-> NoPath, err |-> NoErr]

\* What a call returned: kind is "none" while it runs.
NoRet ==
  [kind |-> "none", path |-> NoPath, cacheHit |-> FALSE, seen |-> <<>>,
   cached |-> <<>>, putOk |-> FALSE, count |-> 0, wraps |-> NoErr,
   reason |-> "", renderFailed |-> FALSE, placeFailed |-> FALSE]

IdleProc ==
  [pc |-> "idle", call |-> "none", key |-> "", ct |-> "", force |-> FALSE,
   at |-> FALSE, loaded |-> FALSE, reg |-> 0, hits |-> 0, misses |-> 0,
   tempPath |-> NoPath, downloadedPath |-> NoPath, localPath |-> NoPath,
   cacheHit |-> FALSE, fdOpen |-> FALSE, fdAttached |-> FALSE, written |-> 0,
   fret |-> NoFret, maxRetries |-> 0, attempt |-> 0, lastErr |-> NoErr,
   calls |-> 0, attempts |-> 0, firstOkAt |-> 0, attemptErr |-> NoErr,
   backoff |-> <<>>, cancelledWaiting |-> FALSE, concurrent |-> FALSE, cancelledAt |-> "", leftTemp |-> FALSE, steps |-> <<>>,
   hadEntry |-> FALSE, ret |-> NoRet]

NoState ==
  [fetch |-> 0, FileKey |-> "", Status |-> NoStatus, TempPath |-> NoPath,
   Error |-> NoErr]

\* A goroutine enters a call: fresh locals, one more call made.
Begin(pr, call, fileKey) ==
  [IdleProc EXCEPT !.call = call, !.key = fileKey, !.calls = pr.calls + 1,
                   !.hits = pr.hits, !.misses = pr.misses]

\* A goroutine returns ret from its call: the locals are gone.
Finish(pr, ret) ==
  [pr EXCEPT !.pc = "idle", !.ret = ret, !.tempPath = NoPath,
             !.downloadedPath = NoPath, !.localPath = NoPath,
             !.cacheHit = FALSE, !.fdOpen = FALSE, !.fdAttached = FALSE,
             !.written = 0, !.fret = NoFret, !.attempt = 0,
             !.lastErr = NoErr]

\* The error DownloadWithRetry returns once its loop has ended without a
\* success, with the attempt count one too low.
RetryFailureOffByOne(maxRetries, lastErr) ==
  [NoRet EXCEPT !.kind = "retryError", !.count = maxRetries, !.wraps = lastErr]

\* The error DownloadWithRetry returns once its loop has ended without a
\* success: "download failed after %d attempts: %w".
RetryFailure(maxRetries, lastErr) ==
  [NoRet EXCEPT !.kind = "retryError", !.count = maxRetries + 1,
                !.wraps = lastErr]

\* DownloadWithRetry after an attempt: returns the path of a success; after
\* a failure breaks out of the loop or goes to the next attempt's backoff.
AfterAttempt(pr, ok, path, err) ==
  IF ok
  THEN Finish(pr, [NoRet EXCEPT !.kind = "path", !.path = path])
  ELSE LET l == [pr EXCEPT !.lastErr = err]
       IN IF ~isRetryableError(err) \/ pr.attempt >= pr.maxRetries
          THEN Finish(l, RetryFailure(pr.maxRetries, l.lastErr))
          ELSE IF pr.attempt + 1 <= pr.maxRetries
          THEN [l EXCEPT !.attempt = @ + 1, !.pc = "r_backoff",
                         !.backoff = backoffDuration(pr.attempt + 1)]
          ELSE Finish(l, RetryFailure(pr.maxRetries, l.lastErr))

\* A return of DownloadWithProgress after which generatePreview renders the
\* downloaded file without handing it to the cache.
AfterFetchSkippingPut(pr, ok, path, err) ==
  CASE pr.call = "Preview" ->
         IF ok THEN [pr EXCEPT !.pc = "p_render", !.localPath = path,
                               !.tempPath = NoPath, !.written = 0,
                               !.fret = NoFret]
         ELSE Finish(pr, [pr.ret EXCEPT !.kind = "NetworkError",
                                        !.wraps = err])
    [] pr.call = "Retry" -> AfterAttempt(pr, ok, path, err)
    [] OTHER ->
         IF ok THEN Finish(pr, [NoRet EXCEPT !.kind = "path", !.path = path])
         ELSE Finish(pr, [NoRet EXCEPT !.kind = "error", !.wraps = err])

\* Where DownloadWithProgress returns to: its caller goes on.
AfterFetch(pr, ok, path, err) ==
  CASE pr.call = "Preview" ->
         IF ok THEN [pr EXCEPT !.pc = "p_put", !.downloadedPath = path,
                               !.tempPath = NoPath, !.written = 0,
                               !.fret = NoFret]
         ELSE Finish(pr, [pr.ret EXCEPT !.kind = "NetworkError",
                                        !.wraps = err])
    [] pr.call = "Retry" -> AfterAttempt(pr, ok, path, err)
    [] OTHER ->
         IF ok THEN Finish(pr, [NoRet EXCEPT !.kind = "path", !.path = path])
         ELSE Finish(pr, [NoRet EXCEPT !.kind = "error", !.wraps = err])

\* A write of one chunk at a file offset; a gap reads as zero bytes.
WriteAt(content, offset, chunk) ==
  LET n == IF Len(content) > offset + 1 THEN Len(content) ELSE offset + 1
  IN [i \in 1..n |-> IF i = offset + 1 THEN chunk
                     ELSE IF i <= Len(content) THEN content[i] ELSE 0]

\* os.Remove: unlinks the path; descriptors open on the file keep the
\* unlinked file, which no path reaches any more.
osRemove(prs, fs, path) ==
  IF path \notin DOMAIN fs THEN [files |-> fs, proc |-> prs]
  ELSE [files |-> Without(fs, path),
        proc |-> [q \in Procs |->
                    IF prs[q].fdOpen /\ prs[q].fdAttached
                       /\ prs[q].tempPath = path
                    THEN [prs[q] EXCEPT !.fdAttached = FALSE]
                    ELSE prs[q]]]

\* DownloadWithProgress, up to the registration of its DownloadState.  The
\* history counts the call and keeps the error it returns.
FetchEnter(p) ==
  LET pr == [proc[p] EXCEPT !.attempts = @ + 1,
                            !.steps = Append(@, "download")]
      failed == [pr EXCEPT !.attemptErr = ErrNoClient]
  IN /\ proc[p].pc = "f_enter"
     /\ IF ~s3Client
        THEN /\ proc' = [proc EXCEPT ![p] = AfterFetch(failed, FALSE, NoPath,
                                                       ErrNoClient)]
             /\ UNCHANGED <<dstate, activeDownloads>>
        ELSE /\ dstate' = [dstate EXCEPT ![p] =
                             [fetch |-> @.fetch + 1, FileKey |-> pr.key,
                              Status |-> DownloadStatusStarted,
                              TempPath |-> NoPath, Error |-> NoErr]]
             /\ activeDownloads' = With(activeDownloads, pr.key, p)
             /\ proc' = [proc EXCEPT ![p] = [pr EXCEPT !.pc = "f_downloading"]]
     /\ UNCHANGED <<cacheVars, last, maintVars, s3Client, ctxDone, mgrVars,
                    dispVars>>

\* state.Status = DownloadStatusDownloading; state.TempPath = tempPath
FetchDownloading(p) ==
  /\ proc[p].pc = "f_downloading"
  /\ dstate' = [dstate EXCEPT ![p].Status = DownloadStatusDownloading,
                              ![p].TempPath = TempPathOf(proc[p].key)]
  /\ proc' = [proc EXCEPT ![p].pc = "f_getobject",
                          ![p].tempPath = TempPathOf(proc[p].key)]
  /\ UNCHANGED <<cacheVars, last, maintVars, s3Client, activeDownloads,
                 ctxDone, mgrVars, dispVars>>

\* s3Client.GetObject: err = NoErr is a success.  A cancelled context makes
\* the call fail.
FetchGetObject(p, err) ==
  /\ proc[p].pc = "f_getobject"
  /\ (err = ErrCanceled) <=> ctxDone[p]
  /\ IF err = NoErr
     THEN /\ proc' = [proc EXCEPT ![p].pc = "f_create"]
          /\ UNCHANGED dstate
     ELSE /\ dstate' = [dstate EXCEPT ![p].Status = DownloadStatusFailed,
                                      ![p].Error = err]
          /\ proc' = [proc EXCEPT ![p].pc = "f_defer",
                        ![p].fret = [ok |-> FALSE, path |-> NoPath,
                                     err |-> err]]
  /\ UNCHANGED <<cacheVars, last, maintVars, s3Client, activeDownloads,
                 ctxDone, mgrVars, dispVars>>

\* os.Create(tempPath): creates the file or truncates the one that is there.
FetchCreate(p, ok) ==
  /\ proc[p].pc = "f_create"
  /\ IF ok
     THEN /\ files' = With(files, proc[p].tempPath, <<>>)
          /\ proc' = [proc EXCEPT ![p].pc = "f_copy", ![p].fdOpen = TRUE,
                                  ![p].fdAttached = TRUE, ![p].written = 0]
          /\ UNCHANGED dstate
     ELSE /\ dstate' = [dstate EXCEPT ![p].Status = DownloadStatusFailed,
                                      ![p].Error = ErrCreate]
          /\ proc' = [proc EXCEPT ![p].pc = "f_defer",
                        ![p].fret = [ok |-> FALSE, path |-> NoPath,
                                     err |-> ErrCreate]]
          /\ UNCHANGED files
  /\ UNCHANGED <<index, persisted, now, maxSize, cleanupPolicy, stored, last,
                 maintVars, s3Client, activeDownloads, ctxDone, mgrVars,
                 dispVars>>

\* copyWithProgressAndState: one round of the loop, a chunk read and written
\* at the descriptor's offset.
FetchCopyChunk(p) ==
  /\ proc[p].pc = "f_copy"
  /\ proc[p].written < Len(Blob(proc[p].key))
  /\ files' = IF proc[p].fdAttached
              THEN [files EXCEPT ![proc[p].tempPath] =
                      WriteAt(@, proc[p].written,
                              Blob(proc[p].key)[proc[p].written + 1])]
              ELSE files
  /\ proc' = [proc EXCEPT ![p].written = @ + 1]
  /\ UNCHANGED <<index, persisted, now, maxSize, cleanupPolicy, stored, last,
                 maintVars, s3Client, activeDownloads, dstate, ctxDone,
                 mgrVars, dispVars>>

\* A Read or a Write of the copy fails: the state is marked failed and
\* os.Remove(tempPath) runs.
FetchCopyFail(p, err) ==
  LET r == osRemove(proc, files, proc[p].tempPath)
  IN /\ proc[p].pc = "f_copy"
     /\ proc[p].written < Len(Blob(proc[p].key))
     /\ (err = ErrCanceled) => ctxDone[p]
     /\ dstate' = [dstate EXCEPT ![p].Status = DownloadStatusFailed,
                                 ![p].Error = err]
     /\ files' = r.files
     /\ proc' = [r.proc EXCEPT ![p].pc = "f_defer",
                   ![p].fret = [ok |-> FALSE, path |-> NoPath, err |-> err]]
     /\ UNCHANGED <<index, persisted, now, maxSize, cleanupPolicy, stored,
                    last, maintVars, s3Client, activeDownloads, ctxDone,
                    mgrVars, dispVars>>

\* The copy has read to the end: state.Status = DownloadStatusCompleted.
FetchComplete(p) ==
  /\ proc[p].pc = "f_copy"
  /\ proc[p].written = Len(Blob(proc[p].key))
  /\ dstate' = [dstate EXCEPT ![p].Status = DownloadStatusCompleted]
  /\ proc' = [proc EXCEPT ![p].pc = "f_defer",
                ![p].fret = [ok |-> TRUE, path |-> proc[p].tempPath,
                             err |-> NoErr]]
  /\ UNCHANGED <<cacheVars, last, maintVars, s3Client, activeDownloads,
                 ctxDone, mgrVars, dispVars>>

\* The deferred calls: file.Close(), delete(d.activeDownloads, fileKey); then
\* DownloadWithProgress returns to its caller.  The history keeps the error
\* returned, the first call that succeeded, and whether the file this fetch
\* created is still at its path.
FetchReturn(p) ==
  LET pr == [proc[p] EXCEPT
               !.fdOpen = FALSE, !.fdAttached = FALSE,
               !.leftTemp = proc[p].fdOpen /\ proc[p].fdAttached,
               !.attemptErr = proc[p].fret.err,
               !.firstOkAt = IF proc[p].fret.ok /\ @ = 0
                             THEN proc[p].attempts ELSE @]
  IN /\ proc[p].pc = "f_defer"
     /\ activeDownloads' = Without(activeDownloads, pr.key)
     /\ proc' = [proc EXCEPT ![p] = AfterFetch(pr, pr.fret.ok, pr.fret.path,
                                               pr.fret.err)]
     /\ UNCHANGED <<cacheVars, last, maintVars, s3Client, dstate, ctxDone,
                    mgrVars, dispVars>>

\* CancelDownload of a registered key; of any other key it returns an error
\* and changes nothing.  The history keeps where the fetch whose state it
\* cancels was.
CancelDownload(fileKey) ==
  LET p == activeDownloads[fileKey]
      r == IF dstate[p].TempPath # NoPath
           THEN osRemove(proc, files, dstate[p].TempPath)
           ELSE [files |-> files, proc |-> proc]
  IN /\ fileKey \in DOMAIN activeDownloads
     /\ dstate' = [dstate EXCEPT ![p].Status = DownloadStatusCancelled]
     /\ files' = r.files
     /\ proc' = [r.proc EXCEPT ![p].cancelledAt = proc[p].pc]
     /\ activeDownloads' = Without(activeDownloads, fileKey)
     /\ UNCHANGED <<index, persisted, now, maxSize, cleanupPolicy, stored,
                    last, maintVars, s3Client, ctxDone, mgrVars, dispVars>>

\* A caller calls DownloadWithProgress (DownloadImage) directly.
StartFetch(p, fileKey) ==
  /\ proc[p].pc = "idle"
  /\ proc[p].calls < MaxCalls
  /\ proc' = [proc EXCEPT ![p] =
                [Begin(proc[p], "Fetch", fileKey) EXCEPT !.pc = "f_enter"]]
  /\ ctxDone' = [ctxDone EXCEPT ![p] = FALSE]
  /\ UNCHANGED <<cacheVars, last, maintVars, s3Client, activeDownloads,
                 dstate, mgrVars, dispVars>>

\* A caller calls DownloadWithRetry: attempt 0 starts without a backoff.
StartRetry(p, fileKey, maxRetries) ==
  /\ proc[p].pc = "idle"
  /\ proc[p].calls < MaxCalls
  /\ proc' = [proc EXCEPT ![p] =
                [Begin(proc[p], "Retry", fileKey) EXCEPT
                   !.pc = "f_enter", !.maxRetries = maxRetries]]
  /\ ctxDone' = [ctxDone EXCEPT ![p] = FALSE]
  /\ UNCHANGED <<cacheVars, last, maintVars, s3Client, activeDownloads,
                 dstate, mgrVars, dispVars>>

\* A backoff whose select takes the timer although ctx.Done() is closed.
RetryBackoffElapsedIgnoringCtx(p) ==
  /\ proc[p].pc = "r_backoff"
  /\ proc' = [proc EXCEPT ![p].pc = "f_enter"]
  /\ UNCHANGED <<cacheVars, last, maintVars, s3Client, activeDownloads,
                 dstate, ctxDone, mgrVars, dispVars>>

\* The select of the backoff takes the timer: the next attempt starts. A
\* pending timer is not taken once ctx.Done() is closed; a timer of a
\* duration that is not positive is ready together with ctx.Done(), and the
\* select may take either.
RetryBackoffElapsed(p) ==
  /\ proc[p].pc = "r_backoff"
  /\ ~ctxDone[p] \/ ~Greater64(proc[p].backoff, Int64(0))
  /\ proc' = [proc EXCEPT ![p].pc = "f_enter"]
  /\ UNCHANGED <<cacheVars, last, maintVars, s3Client, activeDownloads,
                 dstate, ctxDone, mgrVars, dispVars>>

\* The select of the backoff takes ctx.Done(): ctx.Err() is returned.
RetryCtxDone(p) ==
  /\ proc[p].pc = "r_backoff"
  /\ ctxDone[p]
  /\ proc' = [proc EXCEPT ![p] =
                Finish(proc[p], [NoRet EXCEPT !.kind = "ctxErr",
                                              !.wraps = ErrCanceled])]
  /\ UNCHANGED <<cacheVars, last, maintVars, s3Client, activeDownloads,
                 dstate, ctxDone, mgrVars, dispVars>>

\* The caller's context is cancelled while its call runs.
CtxCancel(p) ==
  /\ proc[p].pc # "idle"
  /\ ~ctxDone[p]
  /\ ctxDone' = [ctxDone EXCEPT ![p] = TRUE]
  /\ proc' = [proc EXCEPT ![p].cancelledWaiting = (proc[p].pc = "r_backoff")]
  /\ UNCHANGED <<cacheVars, last, maintVars, s3Client, activeDownloads,
                 dstate, mgrVars, dispVars>>

\* ------------------------------------------------------------------ orchestrator

\* Where a Preview is between deciding on a miss and the end of its Put.
MissWindow ==
  {"p_miss", "f_enter", "f_downloading", "f_getobject", "f_create", "f_copy",
   "f_defer", "p_put"}

\* History: p has just missed; it and every Preview of the same key that is
\* in its own miss are marked as concurrent.
EnterMiss(prs, p) ==
  LET others == {q \in Procs \ {p} :
                   /\ prs[q].call = "Preview"
                   /\ prs[q].key = prs[p].key
                   /\ prs[q].pc \in MissWindow}
  IN [q \in Procs |->
        IF (q = p /\ others # {}) \/ q \in others
        THEN [prs[q] EXCEPT !.concurrent = TRUE]
        ELSE prs[q]]

\* Calls of Preview made so far, by all goroutines.
PreviewCalls == proc["p1"].calls + proc["p2"].calls

\* A goroutine calls PreviewImage (force, at = FALSE, FALSE),
\* PreviewImageForce, PreviewImageAt or PreviewImageAtForce.  The history
\* keeps whether the cache could serve the key when the call was made.
CallPreview(p, fileKey, contentType, force, at) ==
  /\ proc[p].pc = "idle"
  /\ PreviewCalls < MaxPreviews
  /\ ctxDone' = [ctxDone EXCEPT ![p] = FALSE]
  /\ proc' = [proc EXCEPT ![p] =
                [Begin(proc[p], "Preview", fileKey) EXCEPT
                   !.pc = "p_count", !.ct = contentType, !.force = force,
                   !.at = at, !.hadEntry = Get(index, files, now, fileKey).hit]]
  /\ UNCHANGED <<cacheVars, last, maintVars, s3Client, activeDownloads,
                 dstate, mgrVars, dispVars>>

\* The counter a goroutine is about to increment: m.previewCount++,
\* m.cacheHitCount++ and m.cacheMissCount++ are a load and a store of a plain
\* int64, with no lock held.
CounterAt(pc) ==
  CASE pc = "p_count" -> previewCount
    [] pc = "p_hit" -> cacheHitCount
    [] pc = "p_miss" -> cacheMissCount
    [] OTHER -> 0

\* The load of an increment.
CounterLoad(p) ==
  /\ proc[p].pc \in {"p_count", "p_hit", "p_miss"}
  /\ ~proc[p].loaded
  /\ proc' = [proc EXCEPT ![p].loaded = TRUE,
                          ![p].reg = CounterAt(proc[p].pc)]
  /\ UNCHANGED <<cacheVars, last, maintVars, dlState, mgrVars, dispVars>>

\* generatePreview up to the format gate: the store of m.previewCount++, then
\* the rejection of a content type that IsImageFile does not accept.
StartPreview(p) ==
  LET pr == [proc[p] EXCEPT !.loaded = FALSE, !.reg = 0]
  IN /\ proc[p].pc = "p_count"
     /\ proc[p].loaded
     /\ previewCount' = proc[p].reg + 1
     /\ proc' =
          IF ~IsImageFile(pr.ct)
          THEN [proc EXCEPT ![p] =
                  Finish(pr, [NoRet EXCEPT
                                !.kind = "FormatError",
                                !.reason = "unsupported image format"])]
          ELSE IF pr.force
          THEN EnterMiss([proc EXCEPT ![p] =
                            [pr EXCEPT !.pc = "p_miss",
                                       !.misses = @ + 1]], p)
          ELSE [proc EXCEPT ![p] = [pr EXCEPT !.pc = "p_get"]]
     /\ UNCHANGED <<cacheVars, last, maintVars, dlState, cacheHitCount,
                    cacheMissCount, currentPreview, dispVars>>

\* The cache lookup of a Preview that is not forced.
PreviewGet(p) ==
  LET r == Get(index, files, now, proc[p].key)
  IN /\ proc[p].pc = "p_get"
     /\ r.touched => ClockOpen
     /\ index' = r.index
     /\ now' = IF r.touched THEN now + ClockStep ELSE now
     /\ proc' =
          IF r.hit
          THEN [proc EXCEPT
                  ![p].pc = "p_hit", ![p].cacheHit = TRUE,
                  ![p].hits = @ + 1,
                  ![p].localPath = index[proc[p].key].FilePath,
                  ![p].steps = Append(@, "get")]
          ELSE EnterMiss([proc EXCEPT
                            ![p].pc = "p_miss",
                            ![p].misses = @ + 1,
                            ![p].steps = Append(@, "get")], p)
     /\ UNCHANGED <<files, persisted, maxSize, cleanupPolicy, stored, last,
                    maintVars, dlState, mgrVars, dispVars>>

\* The hit: the store of m.cacheHitCount++.
PreviewHit(p) ==
  /\ proc[p].pc = "p_hit"
  /\ proc[p].loaded
  /\ cacheHitCount' = proc[p].reg + 1
  /\ proc' = [proc EXCEPT ![p].pc = "p_render", ![p].loaded = FALSE,
                          ![p].reg = 0]
  /\ UNCHANGED <<cacheVars, last, maintVars, dlState, previewCount,
                 cacheMissCount, currentPreview, dispVars>>

\* The miss: the store of m.cacheMissCount++; a forced Preview then deletes
\* the key's entry.
PreviewMiss(p) ==
  LET r == IF proc[p].force THEN Delete(index, files, proc[p].key)
           ELSE [index |-> index, files |-> files]
  IN /\ proc[p].pc = "p_miss"
     /\ proc[p].loaded
     /\ cacheMissCount' = proc[p].reg + 1
     /\ index' = r.index
     /\ files' = r.files
     /\ proc' = [proc EXCEPT
                   ![p].pc = "f_enter", ![p].loaded = FALSE, ![p].reg = 0,
                   ![p].steps = IF proc[p].force THEN Append(@, "delete")
                                ELSE @]
     /\ UNCHANGED <<persisted, now, maxSize, cleanupPolicy, stored, last,
                    maintVars, dlState, previewCount, cacheHitCount,
                    currentPreview, dispVars>>

\* A Preview in which a failed Put ends the call with the cache's error.
PreviewPutFailingOnError(p, fault) ==
  LET r == Put(index, files, now, proc[p].key, proc[p].downloadedPath, fault)
      pr == [proc[p] EXCEPT !.steps = Append(@, "put")]
  IN /\ proc[p].pc = "p_put"
     /\ ~r.err => ClockOpen
     /\ index' = r.index
     /\ files' = r.files
     /\ persisted' = IF r.err THEN persisted
                     ELSE saveIndex(r.index, persisted, TRUE)
     /\ now' = IF r.err THEN now ELSE now + ClockStep
     /\ stored' = IF r.err THEN stored
                  ELSE With(stored, proc[p].key, r.files[r.path])
     /\ proc' = [proc EXCEPT ![p] =
                   IF r.err
                   THEN Finish(pr, [pr.ret EXCEPT !.kind = "CacheError"])
                   ELSE [pr EXCEPT !.pc = "p_render", !.localPath = r.path,
                                   !.ret.putOk = TRUE,
                                   !.ret.cached = r.files[r.path]]]
     /\ UNCHANGED <<maxSize, cleanupPolicy, last, maintVars, dlState, mgrVars,
                    dispVars>>

\* cacheManager.Put of the downloaded file; when it fails the Preview goes on
\* with the downloaded file itself.
PreviewPut(p, fault) ==
  LET r == Put(index, files, now, proc[p].key, proc[p].downloadedPath, fault)
  IN /\ proc[p].pc = "p_put"
     /\ ~r.err => ClockOpen
     /\ index' = r.index
     /\ files' = r.files
     /\ persisted' = IF r.err THEN persisted
                     ELSE saveIndex(r.index, persisted, TRUE)
     /\ now' = IF r.err THEN now ELSE now + ClockStep
     /\ stored' = IF r.err THEN stored
                  ELSE With(stored, proc[p].key, r.files[r.path])
     /\ proc' = [proc EXCEPT
                   ![p].pc = "p_render",
                   ![p].steps = Append(@, "put"),
                   ![p].localPath = IF r.err THEN proc[p].downloadedPath
                                    ELSE r.path,
                   ![p].ret.putOk = ~r.err,
                   ![p].ret.cached = IF r.err THEN <<>> ELSE r.files[r.path]]
     /\ UNCHANGED <<maxSize, cleanupPolicy, last, maintVars, dlState, mgrVars,
                    dispVars>>

\* RenderImage: TRUE when it returns an error.  The file must exist and the
\* decoder must accept its bytes (decodes).
RenderImage(fs, imagePath, decodes) ==
  imagePath \notin DOMAIN fs \/ ~decodes

\* RenderImageAtCells: TRUE when it returns an error (os.Open or image.Decode
\* failed); without the Kitty protocol it is RenderImage.
RenderImageAtCells(fs, imagePath, decodes) ==
  imagePath \notin DOMAIN fs \/ ~decodes

\* getImageInfo, RenderImage (whose error only changes the rendered text) and
\* the return of the ImagePreview from generatePreview, to the caller or to
\* previewImageAt.
PreviewRender(p, decodes) ==
  LET pr == proc[p]
      seen == IF pr.localPath \in DOMAIN files THEN files[pr.localPath]
              ELSE <<>>
      done == [pr EXCEPT !.steps = Append(@, "render")]
      preview == [pr.ret EXCEPT
                    !.path = pr.localPath,
                    !.cacheHit = pr.cacheHit,
                    !.seen = seen,
                    !.renderFailed = RenderImage(files, pr.localPath, decodes)]
  IN /\ pr.pc = "p_render"
     /\ IF Ext(pr.localPath) \notin KnownExtensions
        THEN /\ proc' = [proc EXCEPT ![p] =
                           Finish(pr, [pr.ret EXCEPT
                                         !.kind = "FormatError",
                                         !.reason = "unknown file extension"])]
             /\ UNCHANGED currentPreview
        ELSE /\ proc' = [proc EXCEPT ![p] =
                           IF pr.at
                           THEN [done EXCEPT !.pc = "p_place", !.ret = preview]
                           ELSE Finish(done, [preview EXCEPT
                                                !.kind = "preview"])]
             /\ currentPreview' = [FileKey |-> pr.key,
                                   FilePath |-> pr.localPath,
                                   CacheHit |-> pr.cacheHit]
     /\ UNCHANGED <<cacheVars, last, maintVars, dlState, previewCount,
                    cacheHitCount, cacheMissCount, dispVars>>

\* previewImageAt after generatePreview: RenderImageAtCells of the preview's
\* file; its error is returned in place of the preview.
PreviewPlace(p, decodes) ==
  LET pr == proc[p]
      failed == RenderImageAtCells(files, pr.ret.path, decodes)
  IN /\ pr.pc = "p_place"
     /\ proc' = [proc EXCEPT ![p] =
                   IF failed
                   THEN Finish(pr, [pr.ret EXCEPT !.kind = "error",
                                                 !.placeFailed = TRUE])
                   ELSE Finish(pr, [pr.ret EXCEPT !.kind = "preview"])]
     /\ currentPreview' = IF failed THEN currentPreview
                          ELSE [FileKey |-> pr.key, FilePath |-> pr.ret.path,
                                CacheHit |-> pr.ret.cacheHit]
     /\ UNCHANGED <<cacheVars, last, maintVars, dlState, previewCount,
                    cacheHitCount, cacheMissCount, dispVars>>

\* ------------------------------------------------------------------ display size

ImageSize(w, h) == [Width |-> w, Height |-> h]

\* Image sizes decoded from file headers, and sizes handed to SetDisplaySize.
OriginalWidths == {1, 100, 120, 121, 241, 2000, 3000, 8192, 16384}
OriginalHeights == {1, 48, 49, 100, 500, 1500, 3000, 4320, 8640}
DisplayWidths == {0, 800, 10000}
DisplayHeights == {0, 600, 5000}

\* int(float64(x) * scale) for scale = num/den.  On the sizes of this model
\* the float64 product truncates to the floor of the exact product.
TruncScaled(x, num, den) == (x * num) \div den

\* calculateDisplaySize: the scale is the smaller of maxWidth/Width and
\* maxHeight/Height.
calculateDisplaySize(originalSize, caps) ==
  IF originalSize.Width <= caps.MaxWidth /\ originalSize.Height <= caps.MaxHeight
  THEN originalSize
  ELSE LET useY == caps.MaxHeight * originalSize.Width
                     < caps.MaxWidth * originalSize.Height
           num == IF useY THEN caps.MaxHeight ELSE caps.MaxWidth
           den == IF useY THEN originalSize.Height ELSE originalSize.Width
       IN ImageSize(TruncScaled(originalSize.Width, num, den),
                    TruncScaled(originalSize.Height, num, den))

NoDisplay ==
  [done |-> FALSE, original |-> ImageSize(0, 0), caps |-> ImageSize(0, 0),
   display |-> ImageSize(0, 0)]

\* SetDisplaySize, with the renderer's SetMaxSize clamping to its limits.
SetDisplaySize(width, height) ==
  /\ IF width <= 0 \/ height <= 0
     THEN UNCHANGED <<maxDisplay, rendererMax>>
     ELSE /\ maxDisplay' = ImageSize(width, height)
          /\ rendererMax' =
               [MaxWidth |-> IF width > MaxImageWidth THEN MaxImageWidth
                             ELSE width,
                MaxHeight |-> IF height > MaxImageHeight THEN MaxImageHeight
                              ELSE height]
  /\ UNCHANGED <<cacheVars, last, maintVars, dlVars, mgrVars, disp, cells, fb, lk>>

\* calculateDisplaySize called on an image size, with GetCapabilities' box.
CalculateDisplaySize(originalSize) ==
  /\ disp' = [done |-> TRUE, original |-> originalSize,
              caps |-> ImageSize(rendererMax.MaxWidth, rendererMax.MaxHeight),
              display |-> calculateDisplaySize(originalSize, rendererMax)]
  /\ UNCHANGED <<cacheVars, last, maintVars, dlVars, mgrVars, maxDisplay,
                 rendererMax, cells, fb, lk>>

\* ------------------------------------------------------------------ cell footprint

\* The approximate size of a character cell in pixels, and the height of a
\* character over its width.
charW == 8
charH == 16
charRatio == 2

\* Image sizes and pixel boxes handed to the cell computations.
CellImageWidths == {1, 4, 8, 49, 100, 800, 2000}
CellImageHeights == {1, 16, 48, 600, 3000}
CellBoxWidths == {8, 800, 8192}
CellBoxHeights == {16, 600, 4320}

\* The truncation to an integer of float64(x)/cell * scale for the scale
\* num/den.  A scale of 1.0 and the division by a cell size are exact.  Under
\* another scale the float64 quotient num/den is rounded, and a product that
\* is a whole number in exact arithmetic may come out just below it and
\* truncate to one less (int(49/8.0 * (8/8.0 / (49/8.0))) is 0): `lossy`
\* chooses that outcome.
TruncCells(x, cell, num, den, lossy) ==
  LET q == (x * num) \div (cell * den)
  IN IF lossy /\ num # den /\ (x * num) % (cell * den) = 0 THEN q - 1 ELSE q

\* A cell computation that does not cap its scale at 1.0.
calculateTerminalCellsUpscaling(imgWidth, imgHeight, maxWidth, maxHeight, lossy) ==
  LET useY == maxHeight * imgWidth < charRatio * imgHeight * maxWidth
      num == IF useY THEN maxHeight ELSE maxWidth
      den == IF useY THEN charRatio * imgHeight ELSE imgWidth
      cols == TruncCells(imgWidth, charW, num, den, lossy[1])
      rows == TruncCells(imgHeight, charH, num, den, lossy[2])
  IN [cols |-> IF cols = 0 THEN 1 ELSE cols,
      rows |-> IF rows = 0 THEN 1 ELSE rows]

\* calculateTerminalCells: scaleX is (maxWidth/8)/(imgWidth/8) and scaleY is
\* (maxHeight/16)/(imgHeight/16*2); the scale is the smaller one, at most
\* 1.0; cols is imgCols*scale and rows is imgRows*scale/2, truncated, and a
\* zero becomes 1.
calculateTerminalCells(imgWidth, imgHeight, maxWidth, maxHeight, lossy) ==
  LET useY == maxHeight * imgWidth < charRatio * imgHeight * maxWidth
      scaleNum == IF useY THEN maxHeight ELSE maxWidth
      scaleDen == IF useY THEN charRatio * imgHeight ELSE imgWidth
      capped == scaleNum > scaleDen
      num == IF capped THEN 1 ELSE scaleNum
      den == IF capped THEN 1 ELSE scaleDen
      cols == TruncCells(imgWidth, charW, num, den, lossy[1])
      rows == TruncCells(imgHeight, charH, num, den, lossy[2])
  IN [cols |-> IF cols = 0 THEN 1 ELSE cols,
      rows |-> IF rows = 0 THEN 1 ELSE rows]

\* estimateCellUsage: the box is the display size that was set, or the
\* renderer's capabilities when none was; the arithmetic is that of
\* calculateTerminalCells, with cols and rows below 1 raised to 1.
estimateCellUsage(displaySize, maxDisp, caps, lossy) ==
  LET fallback == maxDisp.Width <= 0 \/ maxDisp.Height <= 0
      maxW == IF fallback THEN caps.MaxWidth ELSE maxDisp.Width
      maxH == IF fallback THEN caps.MaxHeight ELSE maxDisp.Height
      useY == maxH * displaySize.Width < charRatio * displaySize.Height * maxW
      scaleNum == IF useY THEN maxH ELSE maxW
      scaleDen == IF useY THEN charRatio * displaySize.Height
                  ELSE displaySize.Width
      capped == scaleNum > scaleDen
      num == IF capped THEN 1 ELSE scaleNum
      den == IF capped THEN 1 ELSE scaleDen
      cols == TruncCells(displaySize.Width, charW, num, den, lossy[1])
      rows == TruncCells(displaySize.Height, charH, num, den, lossy[2])
  IN [cols |-> IF cols < 1 THEN 1 ELSE cols,
      rows |-> IF rows < 1 THEN 1 ELSE rows]

NoCells ==
  [op |-> "none", img |-> ImageSize(0, 0), box |-> ImageSize(0, 0),
   cols |-> 0, rows |-> 0]

\* The renderer computes the cells of a decoded image for a pixel box.
CalculateTerminalCells(imgWidth, imgHeight, maxWidth, maxHeight, lossy) ==
  /\ LET c == calculateTerminalCells(imgWidth, imgHeight, maxWidth,
                                     maxHeight, lossy)
     IN cells' = [op |-> "calculateTerminalCells",
                  img |-> ImageSize(imgWidth, imgHeight),
                  box |-> ImageSize(maxWidth, maxHeight),
                  cols |-> c.cols, rows |-> c.rows]
  /\ UNCHANGED <<cacheVars, last, maintVars, dlVars, mgrVars, maxDisplay,
                 rendererMax, disp, fb, lk>>

\* The orchestrator estimates the cells of a display size.
EstimateCellUsage(displaySize, lossy) ==
  /\ LET c == estimateCellUsage(displaySize, maxDisplay, rendererMax, lossy)
         fallback == maxDisplay.Width <= 0 \/ maxDisplay.Height <= 0
     IN cells' = [op |-> "estimateCellUsage",
                  img |-> displaySize,
                  box |-> IF fallback
                          THEN ImageSize(rendererMax.MaxWidth,
                                         rendererMax.MaxHeight)
                          ELSE maxDisplay,
                  cols |-> c.cols, rows |-> c.rows]
  /\ UNCHANGED <<cacheVars, last, maintVars, dlVars, mgrVars, maxDisplay,
                 rendererMax, disp, fb, lk>>

\* ------------------------------------------------------------------ the index's lock

\* Goroutines calling one cache instance, and the calls they make.
LockProcs == {"t1", "t2"}
LockOps ==
  {"Get", "Put", "Delete", "Cleanup", "CompactCache", "UpdateAccessTime",
   "GetCacheStats"}

\* The lock a call takes on entry: Get and GetCacheStats take RLock, the
\* others Lock.
LockMode(op) == IF op \in {"Get", "GetCacheStats"} THEN "R" ELSE "W"

\* The accesses of the calls with a Get that only reads the index.
IndexAccessesGetReadOnlyUnderRLock(op, present) ==
  CASE op = "GetCacheStats" -> <<"read">>
    [] op = "Get" -> <<"read">>
    [] op \in {"Delete", "UpdateAccessTime"} ->
         IF present THEN <<"read", "write">> ELSE <<"read">>
    [] OTHER -> <<"read", "write">>

\* What a call does to the index while it holds the lock, in order.  Get
\* looks its key up and, for a key that is present, either deletes it (file
\* gone) or writes the entry's AccessTime; GetCacheStats only reads; Delete
\* and UpdateAccessTime write when the key is present; Put, Cleanup and
\* CompactCache read and write.
IndexAccesses(op, present) ==
  CASE op = "GetCacheStats" -> <<"read">>
    [] op \in {"Get", "Delete", "UpdateAccessTime"} ->
         IF present THEN <<"read", "write">> ELSE <<"read">>
    [] OTHER -> <<"read", "write">>

NoLockProc == [pc |-> "idle", op |-> "none", todo |-> <<>>, access |-> "none"]

\* sync.RWMutex unlocked and nobody calling.
NoLocks ==
  [readers |-> {}, writer |-> {}, th |-> [t \in LockProcs |-> NoLockProc]]

\* A goroutine calls op; `present` says whether its key is in the index.
LockCall(t, op, present) ==
  /\ lk.th[t].pc = "idle"
  /\ lk' = [lk EXCEPT !.th[t] = [pc |-> "locking", op |-> op,
                                  todo |-> IndexAccesses(op, present),
                                  access |-> "none"]]
  /\ UNCHANGED <<cacheVars, last, maintVars, dlVars, mgrVars, maxDisplay,
                 rendererMax, disp, cells, fb>>

\* c.mutex.RLock() returns when no writer holds the mutex; c.mutex.Lock()
\* when nobody holds it.
LockAcquire(t) ==
  /\ lk.th[t].pc = "locking"
  /\ IF LockMode(lk.th[t].op) = "R"
     THEN /\ lk.writer = {}
          /\ lk' = [lk EXCEPT !.readers = @ \cup {t}, !.th[t].pc = "held"]
     ELSE /\ lk.writer = {} /\ lk.readers = {}
          /\ lk' = [lk EXCEPT !.writer = {t}, !.th[t].pc = "held"]
  /\ UNCHANGED <<cacheVars, last, maintVars, dlVars, mgrVars, maxDisplay,
                 rendererMax, disp, cells, fb>>

\* The holder starts its next read or write of the index.
LockBeginAccess(t) ==
  /\ lk.th[t].pc = "held"
  /\ lk.th[t].access = "none"
  /\ lk.th[t].todo # <<>>
  /\ lk' = [lk EXCEPT !.th[t].access = Head(lk.th[t].todo),
                      !.th[t].todo = Tail(@)]
  /\ UNCHANGED <<cacheVars, last, maintVars, dlVars, mgrVars, maxDisplay,
                 rendererMax, disp, cells, fb>>

\* The read or write of the index is over.
LockEndAccess(t) ==
  /\ lk.th[t].pc = "held"
  /\ lk.th[t].access # "none"
  /\ lk' = [lk EXCEPT !.th[t].access = "none"]
  /\ UNCHANGED <<cacheVars, last, maintVars, dlVars, mgrVars, maxDisplay,
                 rendererMax, disp, cells, fb>>

\* The deferred RUnlock or Unlock: the call returns.
LockRelease(t) ==
  /\ lk.th[t].pc = "held"
  /\ lk.th[t].access = "none"
  /\ lk.th[t].todo = <<>>
  /\ lk' = [lk EXCEPT !.readers = @ \ {t}, !.writer = @ \ {t},
                      !.th[t] = [NoLockProc EXCEPT !.op = lk.th[t].op]]
  /\ UNCHANGED <<cacheVars, last, maintVars, dlVars, mgrVars, maxDisplay,
                 rendererMax, disp, cells, fb>>

\* ------------------------------------------------------------------ file browser

\* The listings a filesLoadedMsg brings, each with the cursor on its first row.
FileLists ==
  {<<>>,
   <<[Key |-> "dir/a.png", ContentType |-> "image/png"]>>,
   <<[Key |-> "b.txt", ContentType |-> "text/plain"]>>}

\* filepath.Base on the keys of FileLists.
BaseName(fileKey) == IF fileKey = "dir/a.png" THEN "a.png" ELSE fileKey

\* The keys pressed: those bound in DefaultKeyMap to Upload, Search, Download,
\* Preview, ToggleImage, ForcePreview, Delete, ChangeBucket, Refresh, Confirm,
\* Cancel, Quit, and enter, esc and a letter bound to nothing.
BrowserKeys ==
  {"u", "s", "d", "v", "p", "P", "x", "c", "r", "y", "n", "q", "enter", "esc",
   "a"}

\* The message a command sends to Update when it has run, if any.
MsgOf(cmd) ==
  CASE cmd = "deleteFile" -> {"deleteCompletedMsg"}
    [] cmd = "loadFiles" -> {"filesLoadedMsg"}
    [] cmd = "downloadFileWithProgress" -> {"DownloadStartedMsg"}
    [] cmd = "uploadFile" -> {"uploadCompletedMsg"}
    [] cmd = "modalClosed" -> {"modalClosedMsg"}
    [] cmd = "bucketSelectorClosed" -> {"bucketSelectorClosedMsg"}
    [] cmd = "switchToBucket" -> {"bucketSwitchedMsg"}
    [] OTHER -> {}

\* NewFileBrowserModel, with the loadFiles of Init in flight.
NewFileBrowserModel ==
  [files |-> <<>>, deleting |-> FALSE, deletingFile |-> "",
   confirmDelete |-> FALSE, deleteTarget |-> "", showInput |-> FALSE,
   inputMode |-> "none", showingPreview |-> FALSE,
   showingBucketSelector |-> FALSE, downloading |-> FALSE,
   uploading |-> FALSE, loading |-> TRUE,
   cmd |-> "loadFiles", pending |-> {"filesLoadedMsg"}]

\* `return m, cmd`
Return(m, cmd) ==
  [m EXCEPT !.cmd = cmd, !.pending = @ \cup MsgOf(cmd)]

\* len(m.files) > 0 && m.cursor < len(m.files), the cursor being on row 0
HasSelection(m) == Len(m.files) > 0

\* startPreviewModal
startPreviewModal(m, force) ==
  IF m.downloading \/ m.deleting THEN Return(m, "nil")
  ELSE IF ~HasSelection(m) THEN Return(m, "nil")
  ELSE IF ~IsImageFile(m.files[1].ContentType) THEN Return(m, "nil")
  ELSE Return([m EXCEPT !.showingPreview = TRUE], "previewModal.Init")

\* An Upload key that a delete in progress does not block.
UploadBlockedIgnoringDelete(m) == m.downloading \/ m.uploading

\* handleNavigation's Upload case: `m.downloading || m.uploading || m.deleting`
UploadBlocked(m) == m.downloading \/ m.uploading \/ m.deleting

\* handleNavigation, on the keys of BrowserKeys.
handleNavigation(m, k) ==
  CASE k \in {"q", "esc"} ->
         IF m.downloading
         THEN Return([m EXCEPT !.downloading = FALSE], "nil")
         ELSE Return(m, "tea.Quit")
    [] k = "d" ->
         IF m.downloading \/ m.deleting THEN Return(m, "nil")
         ELSE IF HasSelection(m) THEN Return(m, "downloadFileWithProgress")
         ELSE Return(m, "nil")
    [] k = "v" ->
         IF m.downloading \/ m.deleting THEN Return(m, "nil")
         ELSE IF HasSelection(m) THEN Return(m, "generatePreviewURL")
         ELSE Return(m, "nil")
    [] k = "s" ->
         IF m.downloading \/ m.uploading \/ m.deleting THEN Return(m, "nil")
         ELSE Return([m EXCEPT !.showInput = TRUE, !.inputMode = "search"],
                     "nil")
    [] k = "u" ->
         IF UploadBlocked(m) THEN Return(m, "nil")
         ELSE Return([m EXCEPT !.showInput = TRUE, !.inputMode = "upload"],
                     "nil")
    [] k = "x" ->
         IF m.downloading \/ m.deleting THEN Return(m, "nil")
         ELSE IF HasSelection(m)
         THEN Return([m EXCEPT !.confirmDelete = TRUE,
                               !.deleteTarget = m.files[1].Key], "nil")
         ELSE Return(m, "nil")
    [] k = "c" ->
         IF m.downloading \/ m.deleting THEN Return(m, "nil")
         ELSE Return([m EXCEPT !.showingBucketSelector = TRUE],
                     "bucketSelector.Init")
    [] k = "n" ->
         \* NextPage; hasNextPage is false on the listings of this model
         Return(m, "nil")
    [] k = "p" -> startPreviewModal(m, FALSE)
    [] k = "P" -> startPreviewModal(m, TRUE)
    [] k = "r" ->
         IF m.downloading \/ m.deleting THEN Return(m, "nil")
         ELSE Return([m EXCEPT !.loading = TRUE], "loadFiles")
    [] OTHER -> Return(m, "nil")

\* handleDeleteConfirmation
handleDeleteConfirmation(m, k) ==
  CASE k = "y" ->
         Return([m EXCEPT !.confirmDelete = FALSE, !.deleting = TRUE,
                          !.deletingFile = BaseName(m.deleteTarget)],
                "deleteFile")
    [] k \in {"n", "q", "esc"} ->
         Return([m EXCEPT !.confirmDelete = FALSE, !.deleteTarget = ""], "nil")
    [] OTHER -> Return(m, "nil")

\* handleInputPopup with the text input focused: esc resets the dialog;
\* enter on a search loads the files; enter on an upload starts the upload
\* when the path names a file (exists) and only closes the dialog otherwise;
\* another key edits the text.
handleInputPopup(m, k, exists) ==
  CASE k = "esc" ->
         Return([m EXCEPT !.showInput = FALSE, !.inputMode = "none"], "nil")
    [] k = "enter" ->
         LET closed == [m EXCEPT !.showInput = FALSE, !.inputMode = "none"]
         IN CASE m.inputMode = "search" ->
                   Return([closed EXCEPT !.loading = TRUE], "loadFiles")
              [] m.inputMode = "upload" ->
                   IF exists
                   THEN Return([closed EXCEPT !.uploading = TRUE], "uploadFile")
                   ELSE Return(closed, "nil")
              [] OTHER -> Return(closed, "nil")
    [] OTHER -> Return(m, "nil")

\* Update on a tea.KeyMsg: the preview modal, the bucket selector, the delete
\* confirmation and the input popup take the key before handleNavigation.
UpdateKey(m, k, exists) ==
  IF m.showingPreview
  THEN IF k \in {"q", "esc", "p", "P"} THEN Return(m, "modalClosed")
       ELSE Return(m, "nil")
  ELSE IF m.showingBucketSelector
  THEN IF k \in {"esc", "q"} THEN Return(m, "bucketSelectorClosed")
       ELSE IF k = "enter" THEN Return(m, "switchToBucket")
       ELSE Return(m, "nil")
  ELSE IF m.confirmDelete THEN handleDeleteConfirmation(m, k)
  ELSE IF m.showInput THEN handleInputPopup(m, k, exists)
  ELSE handleNavigation(m, k)

\* Update on a message one of the commands has sent.
UpdateMsg(m, msg, listing, failed) ==
  LET got == [m EXCEPT !.pending = @ \ {msg}]
  IN CASE msg = "filesLoadedMsg" ->
            Return([got EXCEPT !.loading = FALSE, !.files = listing], "nil")
       [] msg = "deleteCompletedMsg" ->
            LET done == [got EXCEPT !.confirmDelete = FALSE,
                                    !.deleting = FALSE, !.deletingFile = ""]
            IN IF failed THEN Return(done, "nil")
               ELSE Return([done EXCEPT !.loading = TRUE], "loadFiles")
       [] msg = "bucketSelectorClosedMsg" ->
            Return([got EXCEPT !.showingBucketSelector = FALSE], "nil")
       [] msg = "bucketSwitchedMsg" ->
            Return([got EXCEPT !.showingBucketSelector = FALSE,
                               !.loading = TRUE], "loadFiles")
       [] msg = "DownloadStartedMsg" ->
            [Return([got EXCEPT !.downloading = TRUE], "nil") EXCEPT
               !.pending = @ \cup {"DownloadCompletedMsg"}]
       [] msg = "DownloadCompletedMsg" ->
            Return([got EXCEPT !.downloading = FALSE], "nil")
       [] msg = "uploadCompletedMsg" ->
            LET done == [got EXCEPT !.uploading = FALSE, !.showInput = FALSE,
                                    !.inputMode = "none"]
            IN IF failed THEN Return(done, "nil")
               ELSE Return(done, "loadFiles")
       [] msg = "modalClosedMsg" ->
            Return([got EXCEPT !.showingPreview = FALSE], "nil")
       [] OTHER -> Return(got, "nil")

\* The user presses a key.
PressKey(k, exists) ==
  /\ fb' = UpdateKey(fb, k, exists)
  /\ UNCHANGED <<cacheVars, last, maintVars, dlVars, mgrVars, maxDisplay,
                 rendererMax, disp, cells, lk>>

\* A message in flight reaches Update.
Deliver(msg, listing, failed) ==
  /\ msg \in fb.pending
  /\ fb' = UpdateMsg(fb, msg, listing, failed)
  /\ UNCHANGED <<cacheVars, last, maintVars, dlVars, mgrVars, maxDisplay,
                 rendererMax, disp, cells, lk>>

\* ------------------------------------------------------------------ Spec

CacheInit ==
  /\ index = <<>>
  /\ files = InitFiles
  /\ persisted = NoIndexFile
  /\ now = 0
  /\ maxSize \in MaxSizes
  /\ cleanupPolicy \in CleanupPolicies
  /\ stored = <<>>
  /\ last = NoCall

\* NewCacheManager has run startAutoCleanup: the goroutine waits in its select.
MaintInit ==
  /\ stopCleanup = "open"
  /\ cleanupCtx = "live"
  /\ ticker = [pending |-> FALSE, stopped |-> FALSE]
  /\ bg = "select"
  /\ panicked = FALSE
  /\ stopReturns = 0

\* NewImageDownloader: no state registered; every goroutine is idle.
DownloaderInit ==
  /\ activeDownloads = <<>>
  /\ dstate = [p \in Procs |-> NoState]
  /\ proc = [p \in Procs |-> IdleProc]
  /\ ctxDone = [p \in Procs |-> FALSE]

\* NewImageManager
ManagerInit ==
  /\ previewCount = 0
  /\ cacheHitCount = 0
  /\ cacheMissCount = 0
  /\ currentPreview = [FileKey |-> "", FilePath |-> NoPath, CacheHit |-> FALSE]

\* NewImageRenderer, and no display size set
DisplayInit ==
  /\ maxDisplay = ImageSize(0, 0)
  /\ rendererMax = [MaxWidth |-> DefaultMaxWidth, MaxHeight |-> DefaultMaxHeight]
  /\ disp = NoDisplay
  /\ cells = NoCells
  /\ fb = NewFileBrowserModel
  /\ lk = NoLocks

\* The parts of the program the cache-only specifications leave alone.
OtherInit ==
  /\ DownloaderInit
  /\ ManagerInit
  /\ DisplayInit
  /\ s3Client = FALSE

Init == CacheInit /\ MaintInit /\ OtherInit

\* The cache used through its API by one caller, on a disk where every I/O
\* call succeeds and nothing else touches the files.
Next ==
  \/ \E key \in Keys : DoGet(key)
  \/ \E key \in Keys : DoPut(key, SourceOf(key), "none", TRUE)
  \/ \E key \in Keys : DoDelete(key)
  \/ \E key \in Keys : DoUpdateAccessTime(key)
  \/ \E order \in CleanupOrders(index, cleanupPolicy) :
       DoCleanup(order, TRUE)

Spec == Init /\ [][Next]_vars

\* ------------------------------------------------------------------ SpecPrealloc

\* The cache API with PreallocateSpace called before writes; saveIndex may
\* fail in it.
NextPrealloc ==
  \/ \E key \in Keys : DoGet(key)
  \/ \E key \in Keys : DoPut(key, SourceOf(key), "none", TRUE)
  \/ \E key \in Keys : DoDelete(key)
  \/ \E requiredSize \in RequiredSizes :
       \E order \in SortedOrders(index, LRULess) : \E saveOk \in BOOLEAN :
         DoPreallocateSpace(requiredSize, order, saveOk)

SpecPrealloc == Init /\ [][NextPrealloc]_vars

\* ------------------------------------------------------------------ SpecOOB

OOBKeys == {"a", "b"}

InitOOB ==
  /\ CacheInit
  /\ MaintInit
  /\ OtherInit
  /\ maxSize = 50
  /\ cleanupPolicy = CleanupPolicyLRU

\* The cache used by one caller while another program removes and rewrites
\* the files of the cache directory.
NextOOB ==
  \/ \E key \in OOBKeys : DoGet(key)
  \/ \E key \in OOBKeys : DoPut(key, SourceOf(key), "none", TRUE)
  \/ \E key \in OOBKeys : DoDelete(key)
  \/ \E key \in OOBKeys : DoVerifyChecksum(key)
  \/ \E path \in DOMAIN files : OutOfBandRemove(path)
  \/ \E path \in DOMAIN files : \E content \in AlteredContents :
       OutOfBandAlter(path, content)

SpecOOB == InitOOB /\ [][NextOOB]_vars

\* ------------------------------------------------------------------ SpecPutDelete

\* One caller makes Put, Delete and Get calls only; a key may be Put again
\* from a file of another size or extension.
NextPutDelete ==
  \/ \E key \in OOBKeys : DoGet(key)
  \/ \E key \in OOBKeys : \E sourcePath \in SrcPaths :
       DoPut(key, sourcePath, "none", TRUE)
  \/ \E key \in OOBKeys : DoDelete(key)

SpecPutDelete == InitOOB /\ [][NextPutDelete]_vars

\* ------------------------------------------------------------------ SpecPutFail

\* The cache used by one caller on a disk where os.Create, the copy and the
\* writing of the index file may fail.
NextPutFail ==
  \/ \E key \in OOBKeys : DoGet(key)
  \/ \E key \in OOBKeys : \E fault \in PutFaults : \E saveOk \in BOOLEAN :
       DoPut(key, SourceOf(key), fault, saveOk)
  \/ \E key \in OOBKeys : DoDelete(key)

SpecPutFail == InitOOB /\ [][NextPutFail]_vars

\* ------------------------------------------------------------------ SpecCacheOps

\* The whole cache API used by one caller on a disk where os.Create, the copy
\* and the writing of the index file may fail, and that nothing else touches.
NextCacheOps ==
  \/ \E key \in OOBKeys : DoGet(key)
  \/ \E key \in OOBKeys : \E fault \in PutFaults : \E saveOk \in BOOLEAN :
       DoPut(key, SourceOf(key), fault, saveOk)
  \/ \E key \in OOBKeys : DoDelete(key)
  \/ \E order \in CleanupOrders(index, cleanupPolicy) :
       \E saveOk \in BOOLEAN : DoCleanup(order, saveOk)
  \/ \E requiredSize \in RequiredSizes :
       \E order \in SortedOrders(index, LRULess) : \E saveOk \in BOOLEAN :
         DoPreallocateSpace(requiredSize, order, saveOk)
  \/ \E saveOk \in BOOLEAN : DoCompactCache(saveOk)

SpecCacheOps == InitOOB /\ [][NextCacheOps]_vars

\* ------------------------------------------------------------------ SpecReopen

\* The whole cache API used by one caller, with files put from any source,
\* on a disk where every I/O call succeeds and nothing else touches the files.
NextReopen ==
  \/ \E key \in OOBKeys : DoGet(key)
  \/ \E key \in OOBKeys : \E sourcePath \in SrcPaths :
       DoPut(key, sourcePath, "none", TRUE)
  \/ \E key \in OOBKeys : DoDelete(key)
  \/ \E order \in CleanupOrders(index, cleanupPolicy) :
       DoCleanup(order, TRUE)
  \/ \E requiredSize \in RequiredSizes :
       \E order \in SortedOrders(index, LRULess) :
         DoPreallocateSpace(requiredSize, order, TRUE)
  \/ DoCompactCache(TRUE)

SpecReopen == InitOOB /\ [][NextReopen]_vars

\* ------------------------------------------------------------------ SpecCompact

\* The cache used by one caller, who also calls CompactCache, while another
\* program removes and rewrites the files of the cache directory.
NextCompact ==
  \/ \E key \in OOBKeys : DoGet(key)
  \/ \E key \in OOBKeys : DoPut(key, SourceOf(key), "none", TRUE)
  \/ \E key \in OOBKeys : DoDelete(key)
  \/ \E saveOk \in BOOLEAN : DoCompactCache(saveOk)
  \/ \E path \in DOMAIN files : OutOfBandRemove(path)
  \/ \E path \in DOMAIN files : \E content \in AlteredContents :
       OutOfBandAlter(path, content)

SpecCompact == InitOOB /\ [][NextCompact]_vars

\* ------------------------------------------------------------------ SpecMaint

MaintKeys == {"a", "b"}

InitMaint ==
  /\ CacheInit
  /\ MaintInit
  /\ OtherInit
  /\ maxSize = 30
  /\ cleanupPolicy = CleanupPolicyLRU

\* A panic ends the process.
Alive == ~panicked

\* The cache with its maintenance goroutine: a caller puts and deletes, the
\* ticker fires, the caller stops the maintenance any number of times.
NextMaint ==
  \/ \E key \in MaintKeys : \E sourcePath \in {SourceOf(key), Src20png} :
       Alive /\ DoPut(key, sourcePath, "none", TRUE)
  \/ \E key \in MaintKeys : Alive /\ DoDelete(key)
  \/ Alive /\ TickerFires
  \/ \E order \in CleanupOrders(index, cleanupPolicy) : \E saveOk \in BOOLEAN :
       Alive /\ BgCleanup(order, saveOk)
  \/ Alive /\ BgCleanupTempFiles
  \/ Alive /\ BgExit
  \/ Alive /\ StopAutoCleanup

SpecMaint == InitMaint /\ [][NextMaint]_vars

\* ------------------------------------------------------------------ SpecStopOnce

\* The cache with its maintenance goroutine, stopped at most once.
NextStopOnce ==
  \/ \E key \in MaintKeys : \E sourcePath \in {SourceOf(key), Src20png} :
       DoPut(key, sourcePath, "none", TRUE)
  \/ \E key \in MaintKeys : DoDelete(key)
  \/ TickerFires
  \/ \E order \in CleanupOrders(index, cleanupPolicy) : \E saveOk \in BOOLEAN :
       BgCleanup(order, saveOk)
  \/ BgCleanupTempFiles
  \/ BgExit
  \/ stopCleanup = "open" /\ StopAutoCleanup

\* The goroutine is scheduled: a sweep it is about to run runs, and a select
\* with the stop ready again and again takes it in the end (the select picks
\* among its ready cases at random).
SpecStopOnce ==
  /\ InitMaint
  /\ [][NextStopOnce]_vars
  /\ WF_vars(BgCleanupTempFiles)
  /\ SF_vars(BgExit)

\* ------------------------------------------------------------------ SpecPreview

\* The key both goroutines preview.
SharedKeys == {"p/x.png"}

InitPreview ==
  /\ CacheInit
  /\ MaintInit
  /\ DownloaderInit
  /\ ManagerInit
  /\ DisplayInit
  /\ maxSize = 50
  /\ cleanupPolicy = CleanupPolicyLRU
  /\ s3Client = TRUE

\* Two goroutines call Preview and PreviewForce of one key on one orchestrator
\* whose downloader has its client set; GetObject and Put may fail.
NextPreview ==
  \/ \E p \in Procs : \E fileKey \in SharedKeys :
       \E contentType \in ContentTypes : \E force \in BOOLEAN :
         CallPreview(p, fileKey, contentType, force, FALSE)
  \/ \E p \in Procs : CounterLoad(p)
  \/ \E p \in Procs : StartPreview(p)
  \/ \E p \in Procs : PreviewGet(p)
  \/ \E p \in Procs : PreviewHit(p)
  \/ \E p \in Procs : PreviewMiss(p)
  \/ \E p \in Procs : FetchEnter(p)
  \/ \E p \in Procs : FetchDownloading(p)
  \/ \E p \in Procs : \E err \in {NoErr, ErrNotFound} : FetchGetObject(p, err)
  \/ \E p \in Procs : FetchCreate(p, TRUE)
  \/ \E p \in Procs : FetchCopyChunk(p)
  \/ \E p \in Procs : FetchComplete(p)
  \/ \E p \in Procs : FetchReturn(p)
  \/ \E p \in Procs : \E fault \in PutFaults : PreviewPut(p, fault)
  \/ \E p \in Procs : PreviewRender(p, TRUE)

SpecPreview == InitPreview /\ [][NextPreview]_vars

\* ------------------------------------------------------------------ SpecRender

InitRender == InitPreview

\* Two goroutines call PreviewImage, PreviewImageAt and their forced forms on
\* one key; the downloads succeed, Put and the decoding of the image may
\* fail.
NextRender ==
  \/ \E p \in Procs : \E fileKey \in SharedKeys :
       \E force \in BOOLEAN : \E at \in BOOLEAN :
         CallPreview(p, fileKey, "image/png", force, at)
  \/ \E p \in Procs : CounterLoad(p)
  \/ \E p \in Procs : StartPreview(p)
  \/ \E p \in Procs : PreviewGet(p)
  \/ \E p \in Procs : PreviewHit(p)
  \/ \E p \in Procs : PreviewMiss(p)
  \/ \E p \in Procs : FetchEnter(p)
  \/ \E p \in Procs : FetchDownloading(p)
  \/ \E p \in Procs : FetchGetObject(p, NoErr)
  \/ \E p \in Procs : FetchCreate(p, TRUE)
  \/ \E p \in Procs : FetchCopyChunk(p)
  \/ \E p \in Procs : FetchComplete(p)
  \/ \E p \in Procs : FetchReturn(p)
  \/ \E p \in Procs : \E fault \in PutFaults : PreviewPut(p, fault)
  \/ \E p \in Procs : \E decodes \in BOOLEAN : PreviewRender(p, decodes)
  \/ \E p \in Procs : \E decodes \in BOOLEAN : PreviewPlace(p, decodes)

SpecRender == InitRender /\ [][NextRender]_vars

\* ------------------------------------------------------------------ SpecFormat

\* The keys previewed: one with a known extension and one with none.
FormatKeys == {"p/x.png", BareKey}

\* Two goroutines call PreviewImage and PreviewImageForce on the two keys,
\* with a content type that passes the gate and one that does not; the
\* download and Put may fail.
NextFormat ==
  \/ \E p \in Procs : \E fileKey \in FormatKeys :
       \E contentType \in {"image/png", "text/plain"} : \E force \in BOOLEAN :
         CallPreview(p, fileKey, contentType, force, FALSE)
  \/ \E p \in Procs : CounterLoad(p)
  \/ \E p \in Procs : StartPreview(p)
  \/ \E p \in Procs : PreviewGet(p)
  \/ \E p \in Procs : PreviewHit(p)
  \/ \E p \in Procs : PreviewMiss(p)
  \/ \E p \in Procs : FetchEnter(p)
  \/ \E p \in Procs : FetchDownloading(p)
  \/ \E p \in Procs : \E err \in {NoErr, ErrNotFound} : FetchGetObject(p, err)
  \/ \E p \in Procs : FetchCreate(p, TRUE)
  \/ \E p \in Procs : FetchCopyChunk(p)
  \/ \E p \in Procs : FetchComplete(p)
  \/ \E p \in Procs : FetchReturn(p)
  \/ \E p \in Procs : \E fault \in PutFaults : PreviewPut(p, fault)
  \/ \E p \in Procs : PreviewRender(p, TRUE)

SpecFormat == InitPreview /\ [][NextFormat]_vars

\* ------------------------------------------------------------------ SpecFetch

InitFetch == InitPreview

\* Two goroutines call DownloadWithProgress while a third party calls
\* CancelDownload.
NextFetch ==
  \/ \E p \in Procs : \E fileKey \in PreviewKeys : StartFetch(p, fileKey)
  \/ \E p \in Procs : FetchEnter(p)
  \/ \E p \in Procs : FetchDownloading(p)
  \/ \E p \in Procs : \E err \in {NoErr, ErrNotFound} : FetchGetObject(p, err)
  \/ \E p \in Procs : \E ok \in BOOLEAN : FetchCreate(p, ok)
  \/ \E p \in Procs : FetchCopyChunk(p)
  \/ \E p \in Procs : FetchCopyFail(p, ErrReset)
  \/ \E p \in Procs : FetchComplete(p)
  \/ \E p \in Procs : FetchReturn(p)
  \/ \E fileKey \in PreviewKeys : CancelDownload(fileKey)

SpecFetch == InitFetch /\ [][NextFetch]_vars

\* ------------------------------------------------------------------ SpecRetry

RetryProcs == {"p1"}
RetryKeys == {"p/x.png"}

InitRetry ==
  /\ CacheInit
  /\ MaintInit
  /\ DownloaderInit
  /\ ManagerInit
  /\ DisplayInit
  /\ maxSize = 50
  /\ cleanupPolicy = CleanupPolicyLRU
  /\ s3Client \in BOOLEAN

\* One goroutine calls DownloadWithRetry; the client may not be set, every
\* attempt may fail at each of its steps, the context may be cancelled.
NextRetry ==
  \/ \E p \in RetryProcs : \E fileKey \in RetryKeys :
       \E maxRetries \in 0..MaxRetries : StartRetry(p, fileKey, maxRetries)
  \/ \E p \in RetryProcs : FetchEnter(p)
  \/ \E p \in RetryProcs : FetchDownloading(p)
  \/ \E p \in RetryProcs :
       \E err \in {NoErr, ErrNotFound, ErrUnavailable, ErrCanceled} :
         FetchGetObject(p, err)
  \/ \E p \in RetryProcs : \E ok \in BOOLEAN : FetchCreate(p, ok)
  \/ \E p \in RetryProcs : FetchCopyChunk(p)
  \/ \E p \in RetryProcs : \E err \in {ErrReset, ErrCanceled} :
       FetchCopyFail(p, err)
  \/ \E p \in RetryProcs : FetchComplete(p)
  \/ \E p \in RetryProcs : FetchReturn(p)
  \/ \E p \in RetryProcs : RetryBackoffElapsed(p)
  \/ \E p \in RetryProcs : RetryCtxDone(p)
  \/ \E p \in RetryProcs : CtxCancel(p)

SpecRetry == InitRetry /\ [][NextRetry]_vars

\* ------------------------------------------------------------------ SpecBackoff

InitBackoff ==
  /\ CacheInit
  /\ MaintInit
  /\ DownloaderInit
  /\ ManagerInit
  /\ DisplayInit
  /\ maxSize = 50
  /\ cleanupPolicy = CleanupPolicyLRU
  /\ s3Client = TRUE

\* One goroutine calls DownloadWithRetry against a service that answers every
\* GetObject with Service Unavailable: every attempt fails and is retried.
NextBackoff ==
  \/ \E p \in RetryProcs : \E fileKey \in RetryKeys :
       \E maxRetries \in 0..MaxBackoffRetries :
         StartRetry(p, fileKey, maxRetries)
  \/ \E p \in RetryProcs : FetchEnter(p)
  \/ \E p \in RetryProcs : FetchDownloading(p)
  \/ \E p \in RetryProcs : FetchGetObject(p, ErrUnavailable)
  \/ \E p \in RetryProcs : FetchReturn(p)
  \/ \E p \in RetryProcs : RetryBackoffElapsed(p)

SpecBackoff == InitBackoff /\ [][NextBackoff]_vars

\* ------------------------------------------------------------------ SpecDisplay

InitDisplay == InitPreview

\* The display size is set and calculateDisplaySize is called on image sizes.
NextDisplay ==
  \/ \E width \in DisplayWidths : \E height \in DisplayHeights :
       SetDisplaySize(width, height)
  \/ \E w \in OriginalWidths : \E h \in OriginalHeights :
       CalculateDisplaySize(ImageSize(w, h))

SpecDisplay == InitDisplay /\ [][NextDisplay]_vars

\* ------------------------------------------------------------------ SpecCells

InitCells == InitPreview

\* The display size is set, and both cell computations are applied to image
\* sizes and boxes with positive dimensions.
NextCells ==
  \/ \E width \in DisplayWidths : \E height \in DisplayHeights :
       SetDisplaySize(width, height)
  \/ \E w \in CellImageWidths : \E h \in CellImageHeights :
       \E maxW \in CellBoxWidths : \E maxH \in CellBoxHeights :
         \E lossy \in BOOLEAN \X BOOLEAN :
           CalculateTerminalCells(w, h, maxW, maxH, lossy)
  \/ \E w \in CellImageWidths : \E h \in CellImageHeights :
       \E lossy \in BOOLEAN \X BOOLEAN :
         EstimateCellUsage(ImageSize(w, h), lossy)

SpecCells == InitCells /\ [][NextCells]_vars

\* ------------------------------------------------------------------ SpecLock

InitLock == InitPreview

\* Two goroutines call the cache, each call taking the lock, reading and
\* writing the index and releasing the lock, interleaved in every way.
NextLock ==
  \/ \E t \in LockProcs : \E op \in LockOps : \E present \in BOOLEAN :
       LockCall(t, op, present)
  \/ \E t \in LockProcs : LockAcquire(t)
  \/ \E t \in LockProcs : LockBeginAccess(t)
  \/ \E t \in LockProcs : LockEndAccess(t)
  \/ \E t \in LockProcs : LockRelease(t)

SpecLock == InitLock /\ [][NextLock]_vars

\* ------------------------------------------------------------------ SpecBrowser

BrowserMsgs ==
  {"filesLoadedMsg", "deleteCompletedMsg", "bucketSelectorClosedMsg",
   "bucketSwitchedMsg", "DownloadStartedMsg", "DownloadCompletedMsg",
   "uploadCompletedMsg", "modalClosedMsg"}

InitBrowser == InitPreview

\* Keys are pressed and the messages of the commands arrive, in any order.
NextBrowser ==
  \/ \E k \in BrowserKeys : \E exists \in BOOLEAN : PressKey(k, exists)
  \/ \E msg \in BrowserMsgs : \E listing \in FileLists :
       \E failed \in BOOLEAN : Deliver(msg, listing, failed)

SpecBrowser == InitBrowser /\ [][NextBrowser]_vars

\* ------------------------------------------------------------------ claims

\* The digest is free of collisions on every content the model writes.
ModelContents == AlteredContents \cup {SrcContent(p) : p \in SrcPaths}
DigestCollisionFree ==
  \A x \in ModelContents : \A y \in ModelContents :
     ChecksumOf(x) = ChecksumOf(y) => x = y

\* Whether some single entry is larger than the configured maximum.
OversizedEntry == \E k \in DOMAIN index : index[k].Size > maxSize

\* C1 as stated: under every policy (LRU, Size, Age), when Cleanup returns the
\* total cached bytes are at most the max size, unless a single entry alone
\* exceeds the max size.
C1_AsStated ==
  last.op = "Cleanup" => (GetSize(index) <= maxSize \/ OversizedEntry)

\* C1 amended: under the LRU and the Size policy, when Cleanup returns the
\* total cached bytes are at most the max size, unless a single entry alone
\* exceeds the max size.
C1_CleanupWithinBudget ==
  (last.op = "Cleanup"
     /\ cleanupPolicy \in {CleanupPolicyLRU, CleanupPolicySize})
  => (GetSize(index) <= maxSize \/ OversizedEntry)

\* A Cleanup under LRU or Size that found the cache over budget and evicted.
C1_Witness ==
  /\ last.op = "Cleanup"
  /\ cleanupPolicy \in {CleanupPolicyLRU, CleanupPolicySize}
  /\ GetSize(last.before) > maxSize
  /\ DOMAIN index # DOMAIN last.before
  /\ DOMAIN index # {}

\* The cache as the scenario builds it: a (19 bytes), b (20), c (20) put in
\* this order and not touched since.
ScenarioCache(idx) ==
  /\ DOMAIN idx = {"a", "b", "c"}
  /\ idx["a"].Size = 19 /\ idx["b"].Size = 20 /\ idx["c"].Size = 20
  /\ \A k \in DOMAIN idx : idx[k].AccessTime = idx[k].CreateTime
  /\ idx["a"].AccessTime < idx["b"].AccessTime
  /\ idx["b"].AccessTime < idx["c"].AccessTime

\* C2: under LRU, Cleanup evicts in ascending order of access time and stops
\* once the freed bytes reach (current - max): no evicted entry was accessed
\* later than a retained one, the freed bytes reach the excess, and without
\* the evicted entry accessed last they would not.  In the scenario (a 19,
\* b 20, c 20, max 50) a is evicted, b is not, and the total is at most 50.
C2_LRUOrder ==
  (last.op = "Cleanup" /\ cleanupPolicy = CleanupPolicyLRU)
  => LET before == last.before
         evicted == DOMAIN before \ DOMAIN index
         excess == GetSize(before) - maxSize
         freed == GetSize(before) - GetSize(index)
     IN /\ DOMAIN index \subseteq DOMAIN before
        /\ \A k \in DOMAIN index : index[k] = before[k]
        /\ \A e \in evicted : \A r \in DOMAIN index :
              ~(before[e].AccessTime > before[r].AccessTime)
        /\ excess <= 0 => evicted = {}
        /\ excess > 0 => freed >= excess
        /\ \A e \in evicted :
              (\A o \in evicted : before[o].AccessTime <= before[e].AccessTime)
              => freed - before[e].Size < excess
        /\ (ScenarioCache(before) /\ maxSize = 50)
           => /\ "a" \notin DOMAIN index
              /\ "b" \in DOMAIN index
              /\ GetSize(index) <= 50

\* The scenario's Cleanup has run: a is gone, b and c stay.
C2_Witness ==
  /\ last.op = "Cleanup"
  /\ cleanupPolicy = CleanupPolicyLRU
  /\ maxSize = 50
  /\ ScenarioCache(last.before)
  /\ DOMAIN index = {"b", "c"}

\* C3: VerifyChecksum(key) returns true (and no error) immediately after a
\* successful Put(key, path), and false with no error once the cached file's
\* bytes have been altered to different content.
C3_ChecksumRoundTrip ==
  (last.op = "VerifyChecksum")
  => /\ last.afterPut => (last.ok /\ ~last.err)
     /\ last.altered => (~last.ok /\ ~last.err)

\* VerifyChecksum has answered for a file rewritten since its Put.
C3_Witness ==
  /\ last.op = "VerifyChecksum"
  /\ last.altered
  /\ ~last.ok
  /\ ~last.err

\* VerifyChecksum has answered right after a Put.
C3_WitnessAfterPut ==
  /\ last.op = "VerifyChecksum"
  /\ last.afterPut
  /\ last.ok

\* C4: if the backing file of a cached key was removed out-of-band, the next
\* Get(key) reports a miss with a nil error, and afterwards the index no
\* longer contains that key.
C4_GetPrunesMissingFile ==
  (last.op = "Get" /\ last.fileGone)
  => (~last.hit /\ ~last.err /\ last.key \notin DOMAIN index)

\* Get has been called on a key whose file was removed.
C4_Witness ==
  /\ last.op = "Get"
  /\ last.fileGone
  /\ ~last.hit

\* C5: calling StopAutoCleanup twice on the same instance does not panic: the
\* second call returns normally.
C5_StopTwiceSafe == ~panicked

\* C6: for every n >= 0, DownloadWithRetry(ctx, key, n) invokes the fetch at
\* most n+1 times; it returns the path of the first successful attempt and
\* makes no attempt after it; when all n+1 attempts have failed it returns an
\* error that wraps the last attempt's error with the attempt count n+1.
C6_RetryBound ==
  \A p \in Procs :
    proc[p].call = "Retry" =>
      /\ proc[p].attempts <= proc[p].maxRetries + 1
      /\ proc[p].firstOkAt # 0 =>
           /\ proc[p].pc = "idle"
           /\ proc[p].attempts = proc[p].firstOkAt
           /\ proc[p].ret.kind = "path"
           /\ proc[p].ret.path = TempPathOf(proc[p].key)
      /\ proc[p].ret.kind = "path" => proc[p].firstOkAt # 0
      /\ (/\ proc[p].pc = "idle"
          /\ proc[p].attempts = proc[p].maxRetries + 1
          /\ proc[p].firstOkAt = 0) =>
           /\ proc[p].ret.kind = "retryError"
           /\ proc[p].ret.count = proc[p].maxRetries + 1
           /\ proc[p].ret.wraps = proc[p].attemptErr

\* A DownloadWithRetry with at least one retry has used up its attempts.
C6_Witness ==
  \E p \in Procs :
    /\ proc[p].call = "Retry"
    /\ proc[p].pc = "idle"
    /\ proc[p].maxRetries >= 1
    /\ proc[p].attempts = proc[p].maxRetries + 1
    /\ proc[p].firstOkAt = 0
    /\ proc[p].ret.kind = "retryError"

\* Content types that are not supported image types.
UnsupportedTypes == {"", "text/plain", "image/unknown"}

\* C7: a Preview of a file whose content type is not a supported image type
\* (text/plain, the empty string, image/unknown) returns a typed format error
\* and no preview, without a network call, a cache lookup or a change to the
\* cache index: its only steps are the call and the increment of
\* previewCount, which ends it, and they leave the cache, the downloader and
\* the current preview as they were.
C7_RejectsUnsupported ==
  [][\A p \in Procs :
       (/\ proc'[p] # proc[p]
        /\ proc'[p].call = "Preview"
        /\ proc'[p].ct \in UnsupportedTypes) =>
         /\ proc'[p].pc \in {"p_count", "idle"}
         /\ proc'[p].pc = "idle" =>
              /\ proc[p].pc = "p_count"
              /\ proc'[p].ret.kind = "FormatError"
              /\ proc'[p].ret.path = NoPath
         /\ UNCHANGED <<index, files, persisted, now, stored, activeDownloads,
                        dstate, currentPreview, cacheHitCount,
                        cacheMissCount>>]_vars

\* A text/plain Preview has been rejected while the cache holds an entry.
C7_Witness ==
  \E p \in Procs :
    /\ proc[p].call = "Preview"
    /\ proc[p].ct = "text/plain"
    /\ proc[p].pc = "idle"
    /\ proc[p].ret.kind = "FormatError"
    /\ DOMAIN index # {}

\* C8: for every original size with positive width and height and every
\* capability box, the display size equals the original when the original
\* fits the box on both axes; otherwise it is the original scaled down by the
\* smaller axis ratio (to within a pixel), never upscaled, with width and
\* height both positive and both within the box.
C8_DisplaySize ==
  disp.done =>
    LET o == disp.original
        c == disp.caps
        d == disp.display
        useY == c.Height * o.Width < c.Width * o.Height
        num == IF useY THEN c.Height ELSE c.Width
        den == IF useY THEN o.Height ELSE o.Width
    IN IF o.Width <= c.Width /\ o.Height <= c.Height
       THEN d = o
       ELSE /\ d.Width > 0 /\ d.Height > 0
            /\ d.Width <= c.Width /\ d.Height <= c.Height
            /\ d.Width <= o.Width /\ d.Height <= o.Height
            /\ d.Width * den <= o.Width * num
            /\ o.Width * num < (d.Width + 1) * den
            /\ d.Height * den <= o.Height * num
            /\ o.Height * num < (d.Height + 1) * den

\* Preview p has returned a preview of key k after a miss that was concurrent
\* with another Preview's miss of k, and its Put succeeded.
ReturnedFromConcurrentMiss(p, k) ==
  /\ proc[p].call = "Preview"
  /\ proc[p].key = k
  /\ proc[p].pc = "idle"
  /\ proc[p].ret.kind = "preview"
  /\ proc[p].concurrent
  /\ proc[p].ret.putOk

\* C9: when two Previews of one key miss concurrently, once both have
\* returned successfully the index holds one entry for the key whose file is
\* a complete copy of the remote blob, and neither caller has cached or been
\* handed (rendered) a truncated or mixed file.
C9_ConcurrentMisses ==
  \A k \in SharedKeys :
    (\A p \in Procs : ReturnedFromConcurrentMiss(p, k)) =>
      /\ k \in DOMAIN index
      /\ index[k].FilePath \in DOMAIN files
      /\ files[index[k].FilePath] = Blob(k)
      /\ \A p \in Procs :
           /\ proc[p].ret.cached = Blob(k)
           /\ proc[p].ret.seen = Blob(k)

TerminalStatuses ==
  {DownloadStatusCompleted, DownloadStatusFailed, DownloadStatusCancelled}

StatusRank(status) ==
  CASE status = NoStatus -> 0
    [] status = DownloadStatusPending -> 1
    [] status = DownloadStatusStarted -> 2
    [] status = DownloadStatusDownloading -> 3
    [] OTHER -> 4

\* C10: the status of a fetch's DownloadState only moves forward along
\* pending, started, downloading, {completed | failed | cancelled}, and once
\* it is completed, failed or cancelled it never changes again.
C10_StatusForwardOnly ==
  [][\A p \in Procs :
       dstate'[p].fetch = dstate[p].fetch =>
         /\ StatusRank(dstate'[p].Status) >= StatusRank(dstate[p].Status)
         /\ dstate[p].Status \in TerminalStatuses =>
              dstate'[p].Status = dstate[p].Status]_vars

\* C11: if CancelDownload(key) is called while a fetch of the key is in
\* flight (here: before its copy has ended), the fetch returns an error: it
\* never returns success with the path of the deleted temp file.
C11_CancelledFetchFails ==
  \A p \in Procs :
    (/\ proc[p].call = "Fetch"
     /\ proc[p].pc = "idle"
     /\ proc[p].cancelledAt \in {"f_downloading", "f_getobject", "f_create",
                                 "f_copy"}) =>
      proc[p].ret.kind = "error"

\* Where a fetch is between the registration of its DownloadState and its
\* deferred unregistration.
RegisteredWindow ==
  {"f_downloading", "f_getobject", "f_create", "f_copy", "f_defer"}

\* A fetch of key k is running.
FetchRunning(k) ==
  \E p \in Procs : proc[p].key = k /\ proc[p].pc \in RegisteredWindow

\* No CancelDownload has hit a call that is running or was the last one made.
NoCancelSoFar == \A p \in Procs : proc[p].cancelledAt = ""

\* C12: in every interleaving of fetches, a DownloadState for key k is in the
\* registry for the whole duration of each fetch of k and is absent once no
\* fetch of k is running, also when two fetches of one key overlap.
C12_RegisteredWhileRunning ==
  NoCancelSoFar =>
    \A k \in PreviewKeys : FetchRunning(k) <=> k \in DOMAIN activeDownloads

\* C13: every fetch writes to a uniquely named temp file: no two fetches in
\* flight at the same time (of one key, or of keys that share a base name)
\* hold the same temp path open for writing.
C13_UniqueTempPath ==
  \A p \in Procs : \A q \in Procs \ {p} :
    (proc[p].fdOpen /\ proc[q].fdOpen) => proc[p].tempPath # proc[q].tempPath

\* C14: whenever a fetch returns an error or is cancelled, the temp file it
\* created no longer exists when it returns.
C14_NoTempFileLeft ==
  \A p \in Procs :
    (/\ proc[p].call = "Fetch"
     /\ proc[p].pc = "idle"
     /\ proc[p].ret.kind = "error" \/ proc[p].cancelledAt # "") =>
      ~proc[p].leftTemp

\* Sequence a is a prefix of sequence b.
IsPrefix(a, b) == Len(a) <= Len(b) /\ \A i \in 1..Len(a) : a[i] = b[i]

\* What a Preview that is not forced does on a hit and on a miss.
HitSteps == <<"get", "render">>
MissSteps == <<"get", "download", "put", "render">>

\* C15: in a Preview that is not forced, a cache hit performs no download; a
\* miss performs exactly one download, then Put of the downloaded file, then
\* the render, in that order; the returned preview has CacheHit = TRUE
\* exactly when no download was performed.
C15_HitOrDownloadPutRender ==
  \A p \in Procs :
    (proc[p].call = "Preview" /\ ~proc[p].force) =>
      /\ IsPrefix(proc[p].steps, HitSteps) \/ IsPrefix(proc[p].steps, MissSteps)
      /\ proc[p].attempts <= 1
      /\ (proc[p].pc = "idle" /\ proc[p].ret.kind = "preview") =>
           /\ proc[p].ret.cacheHit <=> proc[p].attempts = 0
           /\ proc[p].steps = IF proc[p].ret.cacheHit THEN HitSteps
                              ELSE MissSteps

\* One Preview has returned after a miss and another after a hit.
C15_Witness ==
  \E p \in Procs : \E q \in Procs :
    /\ proc[p].call = "Preview" /\ proc[q].call = "Preview"
    /\ ~proc[p].force /\ ~proc[q].force
    /\ proc[p].pc = "idle" /\ proc[q].pc = "idle"
    /\ proc[p].ret.kind = "preview" /\ proc[q].ret.kind = "preview"
    /\ proc[p].ret.cacheHit /\ proc[p].steps = HitSteps
    /\ ~proc[q].ret.cacheHit /\ proc[q].steps = MissSteps

\* The goroutine's Preview has called Put on a downloaded file and Put failed.
PutFailed(p) ==
  /\ proc[p].call = "Preview"
  /\ proc[p].steps # <<>> /\ proc[p].steps[Len(proc[p].steps)] \in {"put", "render"}
  /\ "put" \in {proc[p].steps[i] : i \in 1..Len(proc[p].steps)}
  /\ ~proc[p].ret.putOk

\* C16: when the download succeeds and Put fails, Preview goes on with the
\* downloaded path and returns a preview whose FilePath is the downloaded
\* path and whose CacheHit is false; the only error it can still return is
\* that of RenderImageAtCells in PreviewImageAt.
C16_PutFailureFallsBack ==
  \A p \in Procs :
    PutFailed(p) =>
      /\ proc[p].pc \in {"p_render", "p_place", "idle"}
      /\ proc[p].pc = "p_render" =>
           /\ proc[p].localPath = TempPathOf(proc[p].key)
           /\ ~proc[p].cacheHit
      /\ proc[p].pc \in {"p_place", "idle"} =>
           /\ proc[p].ret.path = TempPathOf(proc[p].key)
           /\ ~proc[p].ret.cacheHit
      /\ proc[p].pc = "idle" =>
           \/ proc[p].ret.kind = "preview"
           \/ proc[p].at /\ proc[p].ret.placeFailed

\* A Preview whose Put failed has returned.
C16_Witness ==
  \E p \in Procs :
    /\ PutFailed(p) /\ proc[p].pc = "idle" /\ proc[p].ret.kind = "preview"

\* The goroutine's Preview has returned after its rendering failed: RenderImage
\* in PreviewImage, RenderImageAtCells in PreviewImageAt.
RenderingFailed(p) ==
  /\ proc[p].call = "Preview" /\ proc[p].pc = "idle"
  /\ \/ ~proc[p].at /\ proc[p].ret.renderFailed
     \/ proc[p].at /\ proc[p].ret.placeFailed

\* C17: a Preview whose rendering fails returns an error and no ImagePreview.
C17_RenderFailureIsAnError ==
  \A p \in Procs : RenderingFailed(p) => proc[p].ret.kind # "preview"

\* What a forced Preview does.
ForcedSteps == <<"delete", "download", "put", "render">>

\* C18: a forced Preview deletes the key's entry, then always fetches; it
\* never returns CacheHit = TRUE, and when it has returned a preview after a
\* successful Put, the entry it wrote holds the object's content.
C18_ForcedFetchesAfresh ==
  \A p \in Procs :
    (proc[p].call = "Preview" /\ proc[p].force) =>
      /\ IsPrefix(proc[p].steps, ForcedSteps)
      /\ ~proc[p].cacheHit
      /\ (proc[p].pc = "idle" /\ proc[p].ret.kind = "preview") =>
           /\ ~proc[p].ret.cacheHit
           /\ proc[p].attempts = 1
           /\ proc[p].steps = ForcedSteps
           /\ proc[p].ret.putOk => proc[p].ret.cached = Blob(proc[p].key)

\* Every Preview call made so far has returned.
AllReturned == \A p \in Procs : proc[p].pc = "idle"

\* Calls served from the cache and calls that went to the network, so far.
HitCalls == proc["p1"].hits + proc["p2"].hits
MissCalls == proc["p1"].misses + proc["p2"].misses

\* C19: once all Preview calls have returned, TotalPreviews is the number of
\* calls made, CacheHits the number of calls served from the cache and
\* CacheMisses the number of calls that went to the network.
C19_NoIncrementLost ==
  AllReturned =>
    /\ previewCount = PreviewCalls
    /\ cacheHitCount = HitCalls
    /\ cacheMissCount = MissCalls

\* C20: after PreallocateSpace(n) has returned without error the cached bytes
\* plus n are within the max size; the entries it evicted were accessed no
\* later than those it kept; and it evicts nothing when the cached bytes plus
\* n were within the max size already.
C20_PreallocateMakesRoom ==
  (last.op = "PreallocateSpace" /\ ~last.err) =>
    /\ calculateTotalSize(index) + last.requiredSize <= maxSize
    /\ \A gone \in DOMAIN last.before \ DOMAIN index : \A kept \in DOMAIN index :
         last.before[gone].AccessTime <= index[kept].AccessTime
    /\ calculateTotalSize(last.before) + last.requiredSize <= maxSize =>
         index = last.before

\* Before the last call, the entry of key k had its file on disk.
HadFile(k) == last.before[k].FilePath \in DOMAIN last.filesBefore

\* Before the last call, the file of key k had the digest its entry records.
Verified(k) ==
  /\ HadFile(k)
  /\ ChecksumOf(last.filesBefore[last.before[k].FilePath]) =
       last.before[k].Checksum

\* C21: after CompactCache the index holds exactly the entries that had an
\* existing file whose recomputed digest equals the stored checksum, each
\* unchanged and with its file untouched; an entry whose file was missing is
\* dropped; an entry whose file fails verification is dropped and its file is
\* deleted.
C21_CompactKeepsVerified ==
  (last.op = "CompactCache") =>
    /\ DOMAIN index = {k \in DOMAIN last.before : Verified(k)}
    /\ \A k \in DOMAIN index :
         /\ index[k] = last.before[k]
         /\ index[k].FilePath \in DOMAIN files
         /\ files[index[k].FilePath] = last.filesBefore[index[k].FilePath]
         /\ files[index[k].FilePath] = stored[k]
    /\ \A k \in DOMAIN last.before :
         (HadFile(k) /\ ~Verified(k)) =>
           last.before[k].FilePath \notin DOMAIN files

\* CompactCache has kept a verified entry and dropped a rewritten one.
C21_Witness ==
  /\ last.op = "CompactCache"
  /\ DOMAIN index # {}
  /\ \E k \in DOMAIN last.before : HadFile(k) /\ ~Verified(k)

\* CompactCache has dropped an entry whose file was missing.
C21_WitnessMissing ==
  /\ last.op = "CompactCache"
  /\ \E k \in DOMAIN last.before : ~HadFile(k)

\* The entry was created more than 24 hours before the current time.
OlderThanDay(e) == e.CreateTime < now - AgeThresholdHours

\* C22: under the Age policy Cleanup deletes every entry created more than 24
\* hours ago and no younger entry, whether or not the cached bytes exceed the
\* max size.
C22_AgeCleanupIgnoresSize ==
  (last.op = "Cleanup" /\ cleanupPolicy = CleanupPolicyAge /\ ~last.err) =>
    DOMAIN index = {k \in DOMAIN last.before : ~OlderThanDay(last.before[k])}

\* The keys the last Cleanup evicted.
Evicted == DOMAIN last.before \ DOMAIN index

\* C23: under the Size policy a Cleanup of a cache over its max size evicts
\* largest first and stops once enough is freed: no evicted entry is strictly
\* smaller than a retained one, the retained entries are untouched and fit the
\* max size, and with the smallest (the last) evicted entry put back the
\* total would exceed the max size.
C23_SizeEvictsLargestFirst ==
  (/\ last.op = "Cleanup" /\ cleanupPolicy = CleanupPolicySize
   /\ calculateTotalSize(last.before) > maxSize) =>
    /\ \A g \in Evicted : \A k \in DOMAIN index :
         last.before[g].Size >= index[k].Size
    /\ \A k \in DOMAIN index : index[k] = last.before[k]
    /\ calculateTotalSize(index) <= maxSize
    /\ \E g \in Evicted :
         /\ \A h \in Evicted : last.before[g].Size <= last.before[h].Size
         /\ calculateTotalSize(index) + last.before[g].Size > maxSize

\* A Size Cleanup has evicted an entry and retained a strictly smaller one.
C23_Witness ==
  /\ last.op = "Cleanup" /\ cleanupPolicy = CleanupPolicySize
  /\ \E g \in Evicted : \E k \in DOMAIN index :
       last.before[g].Size > index[k].Size

\* C24: a Put that fails partway through the copy returns the error and no
\* path, leaves no file at the destination, leaves the index as it was, and so
\* adds no entry for a key that was not cached before.
C24_FailedCopyLeavesNothing ==
  [][(last'.op = "Put" /\ last'.fault = "copy") =>
       /\ last'.err
       /\ last'.path = <<>>
       /\ CachePath(last'.key, SourceOf(last'.key)) \notin DOMAIN files'
       /\ index' = index
       /\ last'.key \notin DOMAIN index => last'.key \notin DOMAIN index']_vars

\* A Put of a key that was not cached has failed in its copy.
C24_Witness ==
  /\ last.op = "Put" /\ last.fault = "copy" /\ last.err
  /\ last.key \notin DOMAIN index
  /\ DOMAIN index # {}

\* Total length of the files the keys ks of the index point to.
RECURSIVE SumFileSizes(_)
SumFileSizes(ks) ==
  IF ks = {} THEN 0
  ELSE LET k == CHOOSE x \in ks : TRUE
       IN Len(files[index[k].FilePath]) + SumFileSizes(ks \ {k})

\* C25: after any sequence of successful Put and Delete calls the cache holds
\* exactly the keys Put and not deleted since (the domain of stored), each
\* once, with the content last Put; Get of each is a hit; GetSize and
\* TotalSize are the sum of the sizes of their files and TotalFiles is their
\* number.
C25_PutDeleteAccounting ==
  /\ DOMAIN index = DOMAIN stored
  /\ \A k \in DOMAIN stored :
       /\ index[k].Key = k
       /\ index[k].FilePath \in DOMAIN files
       /\ files[index[k].FilePath] = stored[k]
       /\ Get(index, files, now, k).hit
  /\ GetSize(index) = SumFileSizes(DOMAIN stored)
  /\ GetCacheStats(index).TotalSize = SumFileSizes(DOMAIN stored)
  /\ GetCacheStats(index).TotalFiles = Cardinality(DOMAIN stored)

\* Two keys are cached from files of different sizes, 39 bytes in all, the
\* last of them Put after earlier calls have moved the clock past 24.
C25_Witness ==
  /\ DOMAIN stored = OOBKeys
  /\ Len(stored["a"]) # Len(stored["b"])
  /\ last.op = "Put" /\ index[last.key].CreateTime > 24
  /\ GetSize(index) = 39

\* C26: Delete(key) returns no error; afterwards the key has no entry and its
\* backing file is gone, so that Get(key) is a miss; every other entry and
\* every other file is as before; and a Delete of a key that is not cached,
\* or whose file is already missing, changes no file and no other entry.
C26_DeleteFrame ==
  [][(last'.op = "Delete") =>
       LET key == last'.key
       IN /\ ~last'.err
          /\ key \notin DOMAIN index'
          /\ ~Get(index', files', now', key).hit
          /\ DOMAIN index' = DOMAIN index \ {key}
          /\ \A k \in DOMAIN index' : index'[k] = index[k]
          /\ key \in DOMAIN index => index[key].FilePath \notin DOMAIN files'
          /\ \A f \in DOMAIN files :
               \/ key \in DOMAIN index /\ f = index[key].FilePath
               \/ f \in DOMAIN files' /\ files'[f] = files[f]
          /\ DOMAIN files' \subseteq DOMAIN files
          /\ key \notin DOMAIN index => (index' = index /\ files' = files)
          /\ (key \in DOMAIN index /\ index[key].FilePath \notin DOMAIN files)
               => files' = files]_vars

\* Delete has removed a cached key and its file while another key stays
\* cached.
C26_Witness ==
  /\ last.op = "Delete" /\ last.indexed /\ ~last.fileGone
  /\ DOMAIN index # {}

\* Delete has been called on a key whose backing file was already missing.
C26_WitnessFileGone ==
  /\ last.op = "Delete" /\ last.indexed /\ last.fileGone

\* Delete has been called on a key that is not cached while another is.
C26_WitnessNotCached ==
  /\ last.op = "Delete" /\ ~last.indexed
  /\ DOMAIN index # {}

\* The errors of the model that are outside the retryable class: no timeout,
\* no connection reset or refusal, no 5xx answer.
NonRetryableErrors == {ErrNoClient, ErrNotFound, ErrCreate, ErrCanceled}

\* C27: once an attempt of DownloadWithRetry has failed with an error outside
\* the retryable class, the call has returned that error wrapped in its
\* failure, without a backoff wait or a further attempt, whatever maxRetries
\* and the attempt's index are.
C27_NonRetryableAborts ==
  \A p \in Procs :
    (proc[p].call = "Retry" /\ proc[p].attemptErr \in NonRetryableErrors) =>
      /\ proc[p].pc = "idle"
      /\ proc[p].ret.kind = "retryError"
      /\ proc[p].ret.wraps = proc[p].attemptErr

\* The second of three allowed attempts has failed with a non-retryable
\* error, after a first one that failed with a retryable error.
C27_Witness ==
  \E p \in Procs :
    /\ proc[p].call = "Retry" /\ proc[p].pc = "idle"
    /\ proc[p].maxRetries = 2 /\ proc[p].attempts = 2
    /\ proc[p].attemptErr = ErrNotFound
    /\ proc[p].ret.kind = "retryError"

\* The first attempt has failed with a non-retryable error although retries
\* were allowed.
C27_WitnessFirstAttempt ==
  \E p \in Procs :
    /\ proc[p].call = "Retry" /\ proc[p].pc = "idle"
    /\ proc[p].maxRetries >= 1 /\ proc[p].attempts = 1
    /\ proc[p].attemptErr \in NonRetryableErrors

\* min(2^(k-1), 30) seconds, for k >= 1.
ExpectedWait(k) == IF k <= 5 THEN Seconds(2 ^ (k - 1)) ELSE Seconds(30)

\* C28: the wait before the k-th retry is min(2^(k-1) s, 30 s), for every k up
\* to maxRetries and every maxRetries: never shorter than 1 second, never
\* longer than 30 seconds.
C28_BackoffDoublesToCap ==
  \A p \in Procs :
    (proc[p].call = "Retry" /\ proc[p].pc = "r_backoff") =>
      /\ proc[p].backoff = ExpectedWait(proc[p].attempt)
      /\ ~Greater64(Seconds(1), proc[p].backoff)
      /\ ~Greater64(proc[p].backoff, Seconds(30))

\* C29: when the context is cancelled during the wait between two attempts of
\* DownloadWithRetry, the next step of the call is its return of the context's
\* error: no further attempt is started.
C29_CancelAbortsBackoff ==
  [][\A p \in Procs :
       (/\ proc[p].call = "Retry" /\ proc[p].pc = "r_backoff"
        /\ ctxDone[p]
        /\ proc'[p] # proc[p]) =>
         /\ proc'[p].pc = "idle"
         /\ proc'[p].ret.kind = "ctxErr"
         /\ proc'[p].ret.wraps = ErrCanceled
         /\ proc'[p].attempts = proc[p].attempts]_vars

\* A call allowed two retries has returned the context's error after one
\* attempt: its context was cancelled during the first wait.
C29_Witness ==
  \E p \in Procs :
    /\ proc[p].call = "Retry" /\ proc[p].pc = "idle"
    /\ proc[p].cancelledWaiting
    /\ proc[p].maxRetries = 2 /\ proc[p].attempts = 1
    /\ proc[p].ret.kind = "ctxErr"

\* The context is cancelled during the second wait.
C29_WitnessSecondWait ==
  \E p \in Procs :
    /\ proc[p].call = "Retry" /\ proc[p].pc = "r_backoff"
    /\ proc[p].cancelledWaiting /\ ctxDone[p]
    /\ proc[p].attempts = 2

\* C30 as stated: for every image size and box with positive dimensions the
\* cell computations give at least one column and one row, and never more
\* columns than the image is wide in cells of 8 pixels.
C30_AsStated ==
  cells.op # "none" =>
    /\ cells.cols >= 1 /\ cells.rows >= 1
    /\ cells.cols * charW <= cells.img.Width

\* C30 amended: the cell computations give at least one column and one row;
\* the columns never exceed the whole cells of 8 pixels in the image's width
\* nor the rows the whole cells of 16 pixels in its height, except that an
\* image narrower or lower than one cell gets one column or one row; and
\* neither exceeds the cells of the box, again except for that one.
C30_CellsClampedNotUpscaled ==
  cells.op # "none" =>
    /\ cells.cols >= 1 /\ cells.rows >= 1
    /\ cells.cols > 1 => /\ cells.cols * charW <= cells.img.Width
                         /\ cells.cols * charW <= cells.box.Width
    /\ cells.rows > 1 => /\ cells.rows * charH <= cells.img.Height
                         /\ cells.rows * charH <= cells.box.Height

\* The renderer has scaled an image larger than its box down to several
\* columns and rows.
C30_Witness ==
  /\ cells.op = "calculateTerminalCells"
  /\ cells.img.Width > cells.box.Width
  /\ cells.cols > 1 /\ cells.rows > 1
  /\ cells.cols * charW < cells.img.Width

\* The orchestrator has estimated the cells of an image that fits its box:
\* the cells are those of the image itself.
C30_WitnessFits ==
  /\ cells.op = "estimateCellUsage"
  /\ cells.img.Width <= cells.box.Width
  /\ cells.cols > 1
  /\ cells.cols = cells.img.Width \div charW
  /\ cells.rows = cells.img.Height \div charH

\* An image narrower than one cell has been given one column.
C30_WitnessNarrow ==
  /\ cells.op # "none"
  /\ cells.img.Width < charW
  /\ cells.cols = 1

\* The keys bound to upload, search, download, preview (URL, image, forced
\* image), delete, change bucket and refresh.
OperationKeys == {"u", "s", "d", "v", "p", "P", "x", "c", "r"}

\* C31: while a delete is in progress, an Update on the key of upload,
\* search, download, preview, delete, change bucket or refresh returns no
\* command and starts nothing: the deleting flag, the name of the file being
\* deleted and every other field of the browser are as before.
C31_DeleteBlocksOperations ==
  [][\A k \in OperationKeys : \A exists \in BOOLEAN :
       (fb.deleting /\ PressKey(k, exists)) =>
         /\ fb'.cmd = "nil"
         /\ fb'.deleting /\ fb'.deletingFile = fb.deletingFile
         /\ fb' = [fb EXCEPT !.cmd = "nil"]]_vars

\* A delete of a listed file is in progress, an upload is running too, and
\* the last Update returned no command: a key was pressed during the delete.
C31_Witness ==
  /\ fb.deleting /\ fb.deletingFile = "a.png"
  /\ fb.uploading
  /\ fb.cmd = "nil"
  /\ "deleteCompletedMsg" \in fb.pending

\* While a delete is in progress no dialog, modal or selector is open.
C31_NoOverlayWhileDeleting ==
  fb.deleting =>
    ~(fb.showInput \/ fb.showingPreview \/ fb.showingBucketSelector
        \/ fb.confirmDelete)

\* C32: in every interleaving of concurrent cache calls, a goroutine writes
\* the index only while it holds the exclusive lock, and while it writes no
\* other goroutine reads or writes the index.
C32_IndexWritesExclusive ==
  \A t \in LockProcs :
    lk.th[t].access = "write" =>
      /\ lk.writer = {t}
      /\ \A u \in LockProcs \ {t} : lk.th[u].access = "none"

\* C33: with nothing but the cache touching its directory, after any sequence
\* of cache calls every entry of the index refers to a file that exists, and
\* distinct keys refer to distinct files.
C33_EveryEntryHasItsFile ==
  /\ \A k \in DOMAIN index : index[k].FilePath \in DOMAIN files
  /\ \A j \in DOMAIN index : \A k \in DOMAIN index :
       j # k => index[j].FilePath # index[k].FilePath

\* The fields of an entry that a reopened cache must agree on.
Identity(e) == [FilePath |-> e.FilePath, Size |-> e.Size, Checksum |-> e.Checksum]

\* The index of a new manager opened on the directory has the keys, paths,
\* sizes and checksums of the index in memory.
ReloadAgrees ==
  LET reloaded == loadIndex(persisted, files)
  IN /\ DOMAIN reloaded = DOMAIN index
     /\ \A k \in DOMAIN index : Identity(reloaded[k]) = Identity(index[k])

C34_WitnessEvicted ==
  /\ last.op = "PreallocateSpace"
  /\ persisted # NoIndexFile
  /\ DOMAIN persisted = DOMAIN index
  /\ \E k \in OOBKeys : k \in DOMAIN stored /\ k \notin DOMAIN index

\* C35: on every tick the background task takes, Cleanup runs and then,
\* whatever Cleanup returned, the sweep of unreferenced files runs in the
\* same tick: after the Cleanup of a tick the task is about to sweep.
C35_SweepFollowsCleanup ==
  last.op = "BgCleanup" => bg = "cleanupTempFiles"

\* C36: once StopAutoCleanup has been called, the background goroutine
\* eventually returns with its ticker stopped, and from then on it stays
\* returned: no Cleanup and no sweep of it follows.
C36_StopEndsTheGoroutine ==
  /\ (stopCleanup = "closed") ~> (bg = "exited" /\ ticker.stopped)
  /\ [](bg = "exited" => [](bg = "exited" /\ ticker.stopped))

\* The goroutine has returned after the stop, with entries still cached.
C36_Witness ==
  /\ stopCleanup = "closed" /\ cleanupCtx = "cancelled"
  /\ bg = "exited" /\ ticker.stopped
  /\ index # <<>>

\* The stop has been called while the goroutine is in the middle of a tick.
C36_WitnessStoppedInTick ==
  /\ stopCleanup = "closed"
  /\ bg = "cleanupTempFiles"

\* C37: a fetch's state is downloading only once GetObject has returned the
\* object: a fetch that is still to call GetObject, or whose GetObject has
\* failed, is not and has not been in downloading.
C37_DownloadingOnlyAfterGetObject ==
  \A p \in Procs :
    proc[p].pc = "f_getobject" => dstate[p].Status # DownloadStatusDownloading

\* C38: once the Preview calls made so far have returned, whether accepted
\* or rejected, TotalPreviews = CacheHits + CacheMisses.
C38_PreviewsAreHitsPlusMisses ==
  AllReturned => previewCount = cacheHitCount + cacheMissCount

\* C39: when a forced Preview has failed because its download failed, a key
\* the cache could serve when the call was made is still served by the cache.
C39_FailedRefreshKeepsTheCopy ==
  \A p \in Procs :
    ( /\ proc[p].pc = "idle" /\ proc[p].call = "Preview" /\ proc[p].force
      /\ proc[p].ret.kind = "NetworkError"
      /\ proc[p].hadEntry )
    => Get(index, files, now, proc[p].key).hit

\* C40: a Preview that has returned a format error has done no cache and no
\* network I/O: the only format error is the one of the content-type gate.
C40_FormatErrorOnlyAtTheGate ==
  \A p \in Procs :
    ( /\ proc[p].pc = "idle" /\ proc[p].call = "Preview"
      /\ proc[p].ret.kind = "FormatError" )
    => /\ proc[p].steps = <<>>
       /\ proc[p].ret.reason = "unsupported image format"

====
